---- MODULE Spec2Model ----
(***************************************************************************)
(* Model of the LassbergEL external lookup pipeline                        *)
(* (src/src/external_lookup.py, src/src/authority.py,                      *)
(* src/src/saia_client.py).                                                *)
(*                                                                         *)
(* Python values are modelled as follows.  A dictionary key that is        *)
(* missing is Absent, a JSON null / Python None is Null.  Text that the    *)
(* code converts (str(), strip(), lower(), float()) is a sequence of       *)
(* one-character strings, so that the conversions are computed and not     *)
(* assumed.  A confidence is an integer number of hundredths.              *)
(***************************************************************************)
EXTENDS Integers, Sequences, FiniteSets, TLC

VARIABLES
    entities,           \* linked_data["entities"]
    added_by_llm,       \* linked_data["added_by_llm"]
    internal_register,  \* linked_data["internal_register"], Absent before the first run
    pc,                 \* position of lookup_unlinked_entities / of the harness
    idx,                \* position of the loop over all_entities (1-based)
    candidates,         \* the local variable candidates of the loop body
    trace,              \* remote calls issued for the mention being processed / by the last call
    LOCAL_WORK_CACHE,   \* the module-level cache of external_lookup.py
    call                \* the last direct call of a function: its name, arguments and outcome

vars ==
    <<entities, added_by_llm, internal_register, pc, idx, candidates, trace,
      LOCAL_WORK_CACHE, call>>

Absent == "absent"
Null == "null"

(***************************************************************************)
(* Bounds of the model.                                                    *)
(***************************************************************************)
MaxMentions == 2

(***************************************************************************)
(* Text helpers: Python's str.strip, str.lower, str() and float().         *)
(***************************************************************************)
Whitespace == {" ", "\t", "\n"}

RECURSIVE LStrip(_)
LStrip(s) == IF s # <<>> /\ Head(s) \in Whitespace THEN LStrip(Tail(s)) ELSE s

RECURSIVE RStrip(_)
RStrip(s) ==
    IF s # <<>> /\ s[Len(s)] \in Whitespace THEN RStrip(SubSeq(s, 1, Len(s) - 1)) ELSE s

Strip(s) == RStrip(LStrip(s))

LowerLetters ==
    <<"a", "b", "c", "d", "e", "f", "g", "h", "i", "j", "k", "l", "m",
      "n", "o", "p", "q", "r", "s", "t", "u", "v", "w", "x", "y", "z">>
UpperLetters ==
    <<"A", "B", "C", "D", "E", "F", "G", "H", "I", "J", "K", "L", "M",
      "N", "O", "P", "Q", "R", "S", "T", "U", "V", "W", "X", "Y", "Z">>

LowerChar(c) ==
    IF \E i \in 1..26 : UpperLetters[i] = c
    THEN LowerLetters[CHOOSE i \in 1..26 : UpperLetters[i] = c]
    ELSE c

UpperChar(c) ==
    IF \E i \in 1..26 : LowerLetters[i] = c
    THEN UpperLetters[CHOOSE i \in 1..26 : LowerLetters[i] = c]
    ELSE c

Upper(s) == [i \in 1..Len(s) |-> UpperChar(s[i])]

Lower(s) == [i \in 1..Len(s) |-> LowerChar(s[i])]

DigitChar(d) == <<"0", "1", "2", "3", "4", "5", "6", "7", "8", "9">>[d + 1]

RECURSIVE NatStr(_)
NatStr(n) == IF n < 10 THEN <<DigitChar(n)>> ELSE NatStr(n \div 10) \o <<DigitChar(n % 10)>>

IntStr(n) == IF n < 0 THEN <<"-">> \o NatStr(0 - n) ELSE NatStr(n)

\* A JSON value carries its type in t: [t |-> "str", v |-> chars],
\* [t |-> "int", v |-> n], [t |-> "num", v |-> hundredths], [t |-> "null"],
\* [t |-> "list"].  Values of different types are never equal.
JStr(s) == [t |-> "str", v |-> s]
JInt(n) == [t |-> "int", v |-> n]
JNum(h) == [t |-> "num", v |-> h]
JNull == [t |-> "null"]
JList == [t |-> "list"]
JAbsent == [t |-> "absent"]     \* the key is missing (dict.get gives its default)

\* str(x) of a JSON value (the cases the model feeds it).
PyStr(j) ==
    CASE j.t = "str" -> j.v
      [] j.t = "int" -> IntStr(j.v)
      [] j.t = "null" -> <<"N", "o", "n", "e">>
      [] j.t = "list" -> <<"[", "]">>
      [] OTHER -> <<"?">>

IsDigit(c) == c \in {"0", "1", "2", "3", "4", "5", "6", "7", "8", "9"}

DigitVal(c) == CHOOSE d \in 0..9 : DigitChar(d) = c

RECURSIVE DigitsVal(_)
DigitsVal(s) == IF s = <<>> THEN 0 ELSE DigitsVal(SubSeq(s, 1, Len(s) - 1)) * 10 + DigitVal(s[Len(s)])

AllDigits(s) == s # <<>> /\ \A i \in 1..Len(s) : IsDigit(s[i])

\* float(x): hundredths, or the exception it raises.  Of the text forms Python
\* accepts, the model knows "d..d" and "d..d.d" and "d..d.dd" (after strip()).
FloatOfText(s0) ==
    LET s == Strip(s0)
        dots == {i \in 1..Len(s) : s[i] = "."}
    IN  IF AllDigits(s) THEN [ok |-> TRUE, v |-> DigitsVal(s) * 100]
        ELSE IF Cardinality(dots) = 1
        THEN LET d == CHOOSE i \in dots : TRUE
                 ip == SubSeq(s, 1, d - 1)
                 fp == SubSeq(s, d + 1, Len(s))
             IN  IF AllDigits(ip) /\ AllDigits(fp) /\ Len(fp) <= 2
                 THEN [ok |-> TRUE,
                       v |-> DigitsVal(ip) * 100
                             + (IF Len(fp) = 1 THEN DigitsVal(fp) * 10 ELSE DigitsVal(fp))]
                 ELSE [ok |-> FALSE, v |-> "ValueError"]
        ELSE [ok |-> FALSE, v |-> "ValueError"]

PyFloat(j) ==
    CASE j.t = "num" -> [ok |-> TRUE, v |-> j.v]
      [] j.t = "int" -> [ok |-> TRUE, v |-> j.v * 100]
      [] j.t = "str" -> FloatOfText(j.v)
      [] OTHER -> [ok |-> FALSE, v |-> "TypeError"]

(***************************************************************************)
(* Remote responses.  What an adapter sees of one HTTP request:            *)
(*   [kind |-> "timeout"], [kind |-> "neterr"]: requests raised;           *)
(*   [kind |-> "http", status, body]: a response; body is NotJson or a     *)
(*   JSON value.                                                           *)
(***************************************************************************)
NotJson == [t |-> "notjson"]

Timeout == [kind |-> "timeout", status |-> 0, body |-> NotJson]
NetErr == [kind |-> "neterr", status |-> 0, body |-> NotJson]
Http(status, body) == [kind |-> "http", status |-> status, body |-> body]

\* response.raise_for_status(): raises for 4xx and 5xx.
RaisesForStatus(resp) == resp.status >= 400

\* Candidate ids and labels of the model's remote world.
Q1 == <<"Q", "1">>
Q2 == <<"Q", "2">>
Q9 == <<"Q", "9">>
G11 == <<"1", "1">>
G12 == <<"1", "2">>
W1 == <<"W", "1">>

\* Items of the Knowledge-Base answer's "search" list; BadItem is an item that
\* is not a JSON object (entity.get raises AttributeError).
BadItem == [bad |-> TRUE, id |-> JAbsent, label |-> Absent]
WDItem(id, label) == [bad |-> FALSE, id |-> id, label |-> label]

\* A JSON object with a "search" list, and one without the key.
WDObj(search) == [t |-> "obj", search |-> search]
EmptyObj == [t |-> "obj"]

\* Items of the Authority-Registry answer's q1.result list: match is "true",
\* "false" or Absent, score the registry's score (0 stands for a missing one,
\* the default of result.get("score", 0.0)).
GNDItem(match, id, name, score) == [match |-> match, id |-> id, name |-> name, score |-> score]

\* A JSON object whose "q1" has a "result" list; one whose "q1" has none.
GNDObj(result) == [t |-> "obj", q1 |-> [result |-> result]]
GNDNoResult == [t |-> "obj", q1 |-> [status |-> "ok"]]

\* One remote call, as recorded in trace: the service, the query text, the
\* entity_type argument, the service's native type, the limit, for the
\* reasoning service the candidates offered, how the remote side failed
\* ("none" when it did not), and what the calling function made of the answer.
Call(svc, text, type, native, limit, cands, failure, out) ==
    [svc |-> svc, text |-> text, type |-> type, native |-> native, limit |-> limit,
     cands |-> cands, failure |-> failure, out |-> out]

\* How a Knowledge-Base / Authority-Registry answer fails, seen from the wire.
WDMalformed(body) ==
    \/ body.t # "obj"
    \/ "search" \notin DOMAIN body
    \/ \E i \in 1..Len(body.search) : body.search[i].bad

GNDMalformed(body) ==
    \/ body.t # "obj"
    \/ "q1" \notin DOMAIN body
    \/ "result" \notin DOMAIN body.q1
    \/ \E i \in 1..Len(body.q1.result) :
          LET r == body.q1.result[i]
          IN  r.match = "true" /\ (r.name = Absent \/ r.id = JAbsent)

FailureOf(resp, Malformed(_)) ==
    CASE resp.kind = "timeout" -> "timeout"
      [] resp.kind = "neterr" -> "neterr"
      [] resp.kind = "http" /\ resp.status >= 400 -> "status"
      [] resp.kind = "http" /\ resp.status < 400 /\ resp.body.t = "notjson" -> "notjson"
      [] resp.kind = "http" /\ resp.status < 400 /\ resp.body.t # "notjson"
            /\ Malformed(resp.body) -> "malformed"
      [] OTHER -> "none"

\* The outcome of a function call: its return value, whether it raised, the
\* remote calls it issued.
Returned(out, calls) == [raised |-> FALSE, out |-> out, calls |-> calls]
Raised(exc, calls) == [raised |-> TRUE, out |-> exc, calls |-> calls]

(***************************************************************************)
(* external_lookup.py: the Knowledge-Base adapter.                         *)
(***************************************************************************)
\* Lines 133-140: the loop over data.get('search', []); ok is FALSE when the
\* loop raised (an item that is not an object).
RECURSIVE WikidataResults(_)
WikidataResults(items) ==
    IF items = <<>> THEN [ok |-> TRUE, v |-> <<>>]
    ELSE IF Head(items).bad THEN [ok |-> FALSE, v |-> <<>>]
    ELSE LET e == Head(items)
             rest == WikidataResults(Tail(items))
         IN  [ok |-> rest.ok,
              v |-> <<[label |-> IF e.label = Absent THEN Null ELSE e.label,
                       id |-> IF e.id = JAbsent THEN JNull ELSE e.id,
                       source |-> "Wikidata"]>> \o rest.v]

WikidataOut(resp) ==
    IF resp.kind # "http" THEN <<>>                 \* session.get raised
    ELSE IF RaisesForStatus(resp) THEN <<>>         \* raise_for_status raised
    ELSE IF resp.body.t = "notjson" THEN <<>>       \* response.json() raised
    ELSE IF resp.body.t # "obj" THEN <<>>           \* data.get: AttributeError
    ELSE LET items == IF "search" \in DOMAIN resp.body THEN resp.body.search ELSE <<>>
             res == WikidataResults(items)
         IN  IF ~res.ok THEN <<>> ELSE res.v

\* _search_wikidata_api, lines 97-149.
_search_wikidata_api(query_text, entity_type, limit, resp) ==
    LET out == WikidataOut(resp)
    IN  Returned(out, <<Call("Wikidata", query_text, entity_type, "item", limit, <<>>,
                             FailureOf(resp, WDMalformed), out)>>)

(***************************************************************************)
(* external_lookup.py: the Authority-Registry adapter.                     *)
(***************************************************************************)
\* entity_type.lower() for the words the callers pass.
LowerWord(w) ==
    CASE w = "Person" -> "person"
      [] w = "Place" -> "place"
      [] w = "Work" -> "work"
      [] w = "CorporateBody" -> "corporatebody"
      [] w = "PER" -> "per"
      [] w = "LOC" -> "loc"
      [] OTHER -> w

\* type_map.get(entity_type.lower()), lines 154-160.
GndTypeMap(entity_type) ==
    LET k == LowerWord(entity_type)
    IN  CASE k = "person" -> "DifferentiatedPerson"
          [] k = "corporatebody" -> "CorporateBody"
          [] k = "work" -> "Work"
          [] k = "place" -> "PlaceOrGeographicName"
          [] OTHER -> Null

\* Lines 184-191: ok is FALSE for the KeyError of result["name"] / result["id"].
RECURSIVE GndResults(_)
GndResults(items) ==
    IF items = <<>> THEN [ok |-> TRUE, v |-> <<>>]
    ELSE LET r == Head(items)
             rest == GndResults(Tail(items))
         IN  IF r.match # "true" THEN rest
             ELSE IF r.name = Absent \/ r.id = JAbsent THEN [ok |-> FALSE, v |-> <<>>]
             ELSE [ok |-> rest.ok,
                   v |-> <<[label |-> r.name, id |-> r.id, source |-> "GND",
                            score |-> r.score]>> \o rest.v]

GndOut(resp) ==
    IF resp.kind # "http" THEN <<>>                 \* requests.get raised
    ELSE IF RaisesForStatus(resp) THEN <<>>         \* raise_for_status raised
    ELSE IF resp.body.t = "notjson" THEN <<>>       \* response.json() raised
    ELSE IF resp.body.t # "obj" THEN <<>>           \* data.get: AttributeError
    ELSE LET items == IF "q1" \in DOMAIN resp.body /\ "result" \in DOMAIN resp.body.q1
                      THEN resp.body.q1.result ELSE <<>>
             res == GndResults(items)
         IN  IF ~res.ok THEN <<>> ELSE res.v

\* _search_gnd, lines 153-197.
_search_gnd(query_text, entity_type, limit, resp) ==
    LET gnd_type == GndTypeMap(entity_type)
        out == GndOut(resp)
    IN  IF gnd_type = Null THEN Returned(<<>>, <<>>)
        ELSE Returned(out, <<Call("GND", query_text, entity_type, gnd_type, limit, <<>>,
                                  FailureOf(resp, GNDMalformed), out)>>)

(***************************************************************************)
(* external_lookup.py: the Local-Catalogue adapter.                        *)
(* A catalogue file is [source, exists, lines]; a line is a catalogue      *)
(* record or BadLine (json.loads raises).  rapidfuzz is a library: the     *)
(* similarity of the query to a record's title and alternate titles is     *)
(* data of the record (sim, alt_sim, on the library's 0..100 scale).       *)
(***************************************************************************)
BadLine == [bad |-> TRUE]
WorkLine(id, title, alt_titles, sim, alt_sim) ==
    [bad |-> FALSE, id |-> id, title |-> title, alt_titles |-> alt_titles,
     sim |-> sim, alt_sim |-> alt_sim]

\* _load_work_jsonl, lines 22-39: the entries read before the first bad line.
RECURSIVE _load_work_jsonl(_, _)
_load_work_jsonl(lines, source) ==
    IF lines = <<>> \/ Head(lines).bad THEN <<>>
    ELSE LET d == Head(lines)
         IN  <<[label |-> d.title, alt_titles |-> d.alt_titles, id |-> d.id,
                source |-> source, ref |-> Null, sim |-> d.sim, alt_sim |-> d.alt_sim]>>
             \o _load_work_jsonl(Tail(lines), source)

\* Lines 45-49: the cache is filled when it is empty, from the files that exist.
RECURSIVE LoadFiles(_)
LoadFiles(work_files) ==
    IF work_files = <<>> THEN <<>>
    ELSE LET f == Head(work_files)
         IN  (IF f.exists
              THEN <<[source |-> f.source, entries |-> _load_work_jsonl(f.lines, f.source)]>>
              ELSE <<>>) \o LoadFiles(Tail(work_files))

CacheAfterCall(cache, work_files) == IF cache = <<>> THEN LoadFiles(work_files) ELSE cache

\* Lines 57-61: the score of one entry.
Max(a, b) == IF a >= b THEN a ELSE b

EntryScore(entry) ==
    IF entry.alt_titles # "" THEN Max(entry.sim, entry.alt_sim) ELSE entry.sim

ScoreThreshold == 75
TopN == 5

\* Lines 54-72: the entries at or above the threshold, in cache order.
RECURSIVE AllEntries(_)
AllEntries(cache) ==
    IF cache = <<>> THEN <<>> ELSE Head(cache).entries \o AllEntries(Tail(cache))

RECURSIVE BestCandidates(_)
BestCandidates(entries) ==
    IF entries = <<>> THEN <<>>
    ELSE LET e == Head(entries)
         IN  (IF EntryScore(e) >= ScoreThreshold
              THEN <<[label |-> e.label, id |-> e.id, source |-> e.source,
                      score |-> EntryScore(e), ref |-> e.ref]>>
              ELSE <<>>) \o BestCandidates(Tail(entries))

\* list.sort(key=score, reverse=True), line 75: stable, descending.
RECURSIVE InsertDesc(_, _)
InsertDesc(c, sorted) ==
    IF sorted = <<>> THEN <<c>>
    ELSE IF Head(sorted).score >= c.score THEN <<Head(sorted)>> \o InsertDesc(c, Tail(sorted))
    ELSE <<c>> \o sorted

RECURSIVE SortDesc(_)
SortDesc(cs) ==
    IF cs = <<>> THEN <<>>
    ELSE InsertDesc(cs[Len(cs)], SortDesc(SubSeq(cs, 1, Len(cs) - 1)))

Take(cs, n) == SubSeq(cs, 1, IF Len(cs) < n THEN Len(cs) ELSE n)

\* A faulty variant of _search_local_work_cache: truncated before it is sorted.
_search_local_work_cache_truncate_first(query_text, cache) ==
    SortDesc(Take(BestCandidates(AllEntries(cache)), TopN))

\* _search_local_work_cache, lines 41-76, on the cache as it is after lines 45-49.
_search_local_work_cache(query_text, cache) ==
    Take(SortDesc(BestCandidates(AllEntries(cache))), TopN)

(***************************************************************************)
(* external_lookup.py: the Candidate Aggregator.                           *)
(***************************************************************************)
PersonLimit == 3
WorkLimit == 3
OrgLimit == 2

\* A faulty variant of _lookup_person_external: a failing Knowledge-Base query
\* ends the lookup, the Authority-Registry is not asked.
_lookup_person_external_abort(text, wd, gnd) ==
    LET wikidata_results == _search_wikidata_api(text, "PER", PersonLimit, wd)
        gnd_results == _search_gnd(text, "Person", PersonLimit, gnd)
    IN  IF wikidata_results.calls[1].failure # "none"
        THEN Returned(<<>>, wikidata_results.calls)
        ELSE Returned(wikidata_results.out \o gnd_results.out,
                      wikidata_results.calls \o gnd_results.calls)

\* _lookup_person_external, lines 199-206.
_lookup_person_external(text, wd, gnd) ==
    LET wikidata_results == _search_wikidata_api(text, "PER", PersonLimit, wd)
        gnd_results == _search_gnd(text, "Person", PersonLimit, gnd)
    IN  Returned(wikidata_results.out \o gnd_results.out,
                 wikidata_results.calls \o gnd_results.calls)

\* A faulty variant of _lookup_place_external: the Authority-Registry is asked
\* for persons.
_lookup_place_external_as_person(text, wd, gnd) ==
    LET wikidata_results == _search_wikidata_api(text, "LOC", PersonLimit, wd)
        gnd_results == _search_gnd(text, "Person", PersonLimit, gnd)
    IN  Returned(wikidata_results.out \o gnd_results.out,
                 wikidata_results.calls \o gnd_results.calls)

\* _lookup_place_external, lines 208-215.
_lookup_place_external(text, wd, gnd) ==
    LET wikidata_results == _search_wikidata_api(text, "LOC", PersonLimit, wd)
        gnd_results == _search_gnd(text, "Place", PersonLimit, gnd)
    IN  Returned(wikidata_results.out \o gnd_results.out,
                 wikidata_results.calls \o gnd_results.calls)

\* A faulty variant of _lookup_work_external: no short circuit, the registry is
\* asked whatever the local search found.
_lookup_work_external_no_short_circuit(text, cache, gnd1, gnd2) ==
    LET local_results == _search_local_work_cache(text, cache)
        lc == <<Call("Local", text, "Work", "cache", TopN, <<>>, "none", local_results)>>
        work_results == _search_gnd(text, "Work", WorkLimit, gnd1)
        org_results == _search_gnd(text, "CorporateBody", OrgLimit, gnd2)
    IN  Returned(local_results \o work_results.out \o org_results.out,
                 lc \o work_results.calls \o org_results.calls)

\* _lookup_work_external, lines 217-237; cache is LOCAL_WORK_CACHE after the
\* local search's load, gnd1 and gnd2 the registry's answers to the two queries.
_lookup_work_external(text, cache, gnd1, gnd2) ==
    LET local_results == _search_local_work_cache(text, cache)
        lc == <<Call("Local", text, "Work", "cache", TopN, <<>>, "none", local_results)>>
    IN  IF local_results # <<>> THEN Returned(local_results, lc)
        ELSE LET work_results == _search_gnd(text, "Work", WorkLimit, gnd1)
                 org_results == _search_gnd(text, "CorporateBody", OrgLimit, gnd2)
             IN  Returned(work_results.out \o org_results.out,
                          lc \o work_results.calls \o org_results.calls)

(***************************************************************************)
(* saia_client.py: SaiaChatClient.chat and chat_json.                      *)
(* attempts[k] is what the k-th POST meets; the body of a 2xx answer is    *)
(* NotJson or [t |-> "chat", content |-> c], where c is the completion's   *)
(* text: NotJson (text that json.loads rejects) or the JSON value the text *)
(* parses to.                                                              *)
(***************************************************************************)
Retry == 2      \* chat's default retry, the one chat_json uses

ChatBody(content) == [t |-> "chat", content |-> content]

\* One pass of the loop body, lines 97-127: TRUE when the attempt returns.
AttemptSucceeds(resp) ==
    /\ resp.kind = "http"
    /\ resp.status < 400
    /\ resp.body.t = "chat"

\* Lines 95-143: every failed attempt before the last is followed by a sleep
\* and another attempt; the last failed attempt raises RuntimeError.
RECURSIVE ChatLoop(_, _, _)
ChatLoop(attempts, attempt, retry) ==
    LET resp == attempts[attempt + 1]
    IN  IF AttemptSucceeds(resp) THEN Returned(resp.body.content, attempt + 1)
        ELSE IF attempt < retry THEN ChatLoop(attempts, attempt + 1, retry)
        ELSE Raised("RuntimeError", attempt + 1)

chat(attempts, retry) == ChatLoop(attempts, 0, retry)

\* chat_json, lines 145-166: json.loads(cc.content).
chat_json(attempts) ==
    LET cc == chat(attempts, Retry)
    IN  IF cc.raised THEN cc
        ELSE IF cc.out = NotJson THEN Raised("ValueError", cc.calls)
        ELSE Returned(cc.out, cc.calls)

(***************************************************************************)
(* The retry loops of the two chat clients, with what they do on the wire  *)
(* and on the clock: events is the sequence of POSTs (numbered from 1) and *)
(* of time.sleep calls (with their duration, in the unit of                *)
(* retry_backoff_s) in the order the loop makes them.                      *)
(***************************************************************************)
Post(n, resp) == [e |-> "post", n |-> n, resp |-> resp]
Sleep(s) == [e |-> "sleep", s |-> s]

ChatReturned(out, events) == [raised |-> FALSE, out |-> out, events |-> events]
ChatRaised(exc, events) == [raised |-> TRUE, out |-> exc, events |-> events]

\* The events of one more pass are put in front of what the rest of the loop does.
After(events, rest) == [rest EXCEPT !.events = events \o rest.events]

\* A faulty variant of SaiaChatLoop: every sleep lasts retry_backoff_s.
RECURSIVE SaiaChatLoop_flat_backoff(_, _, _, _)
SaiaChatLoop_flat_backoff(attempts, attempt, retry, retry_backoff_s) ==
    LET resp == attempts[attempt + 1]
        post == <<Post(attempt + 1, resp)>>
    IN  IF AttemptSucceeds(resp) THEN ChatReturned(resp.body.content, post)
        ELSE IF attempt < retry
        THEN After(post \o <<Sleep(retry_backoff_s)>>,
                   SaiaChatLoop_flat_backoff(attempts, attempt + 1, retry, retry_backoff_s))
        ELSE ChatRaised("RuntimeError", post)

\* SaiaChatClient.chat, saia_client.py lines 95-143, from pass `attempt` on.
RECURSIVE SaiaChatLoop(_, _, _, _)
SaiaChatLoop(attempts, attempt, retry, retry_backoff_s) ==
    LET resp == attempts[attempt + 1]
        post == <<Post(attempt + 1, resp)>>
        again == After(post \o <<Sleep(retry_backoff_s * (attempt + 1))>>,
                       SaiaChatLoop(attempts, attempt + 1, retry, retry_backoff_s))
    IN  IF resp.kind = "http" /\ resp.status >= 400
        THEN IF resp.status = 429 /\ attempt < retry
             THEN again                                          \* lines 110-112
             ELSE IF attempt < retry THEN again                  \* lines 114, 128-132
             ELSE ChatRaised("RuntimeError", post)               \* line 134
        ELSE IF AttemptSucceeds(resp)
        THEN ChatReturned(resp.body.content, post)               \* lines 120-127
        ELSE IF attempt < retry THEN again                       \* lines 135-139
        ELSE ChatRaised("RuntimeError", post)                    \* line 141

\* The exception an attempt of OllamaChatClient.chat raises.
AttemptError(resp) ==
    CASE resp.kind = "timeout" -> "Timeout"
      [] resp.kind = "neterr" -> "ConnectionError"
      [] resp.kind = "http" /\ resp.status >= 400 -> "HTTPError"
      [] OTHER -> "JSONDecodeError"

\* OllamaChatClient.chat, ollama_client.py lines 98-124, from pass `attempt` on.
RECURSIVE OllamaChatLoop(_, _, _, _)
OllamaChatLoop(attempts, attempt, retry, retry_backoff_s) ==
    LET resp == attempts[attempt + 1]
        post == <<Post(attempt + 1, resp)>>
    IN  IF AttemptSucceeds(resp)
        THEN ChatReturned(resp.body.content, post)               \* lines 108-116
        ELSE IF attempt < retry                                  \* lines 117-120
        THEN After(post \o <<Sleep(retry_backoff_s * (attempt + 1))>>,
                   OllamaChatLoop(attempts, attempt + 1, retry, retry_backoff_s))
        ELSE ChatRaised(AttemptError(resp), post)                \* line 122

(***************************************************************************)
(* external_lookup.py: the Reasoning Adjudicator.                          *)
(***************************************************************************)
NoDecision == [t |-> "none"]

NoneText == <<"n", "o", "n", "e">>

\* next((c for c in candidates if c['id'] == pick_id), None), line 278.
RECURSIVE SelectCandidate(_, _)
SelectCandidate(cands, pick_id) ==
    IF cands = <<>> THEN NoDecision
    ELSE IF Head(cands).id = JStr(pick_id) THEN Head(cands)
    ELSE SelectCandidate(Tail(cands), pick_id)

\* A faulty variant of PickFromData: the pick is trusted without looking it up
\* among the candidates.
PickFromData_trusting(data, cands) ==
    LET pick_id == Strip(PyStr(IF data.pick = JAbsent THEN JStr(NoneText) ELSE data.pick))
        conf == PyFloat(IF data.confidence = JAbsent THEN JNum(0) ELSE data.confidence)
    IN  IF ~conf.ok THEN NoDecision
        ELSE IF pick_id # <<>> /\ Lower(pick_id) # NoneText
        THEN [t |-> "decision", external_id |-> pick_id,
              external_source |-> Head(cands).source,
              confidence |-> conf.v, gnd_id |-> Null]
        ELSE NoDecision

\* A faulty variant of PickFromData: a pick of "none" or of nothing is taken
\* as a pick of the first candidate.
PickFromData_first_on_none(data, cands) ==
    LET pick_id == Strip(PyStr(IF data.pick = JAbsent THEN JStr(NoneText) ELSE data.pick))
        conf == PyFloat(IF data.confidence = JAbsent THEN JNum(0) ELSE data.confidence)
        selected_candidate ==
            IF pick_id # <<>> /\ Lower(pick_id) # NoneText
            THEN SelectCandidate(cands, pick_id) ELSE Head(cands)
    IN  IF ~conf.ok \/ selected_candidate = NoDecision THEN NoDecision
        ELSE [t |-> "decision", external_id |-> PyStr(selected_candidate.id),
              external_source |-> selected_candidate.source,
              confidence |-> conf.v, gnd_id |-> Null]

\* Lines 274-287, on the parsed answer.
PickFromData(data, cands) ==
    LET pick_id == Strip(PyStr(IF data.pick = JAbsent THEN JStr(NoneText) ELSE data.pick))
        conf == PyFloat(IF data.confidence = JAbsent THEN JNum(0) ELSE data.confidence)
    IN  IF ~conf.ok THEN NoDecision                     \* float() raised: except, line 289
        ELSE IF pick_id # <<>> /\ Lower(pick_id) # NoneText
        THEN LET selected_candidate == SelectCandidate(cands, pick_id)
             IN  IF selected_candidate # NoDecision
                 THEN [t |-> "decision", external_id |-> pick_id,
                       external_source |-> selected_candidate.source,
                       confidence |-> conf.v, gnd_id |-> Null]
                 ELSE NoDecision
        ELSE NoDecision

\* A faulty variant of _ask_llm_external_pick: when the reasoning service fails
\* the first candidate is taken.
_ask_llm_external_pick_fallback(attempts, cands) ==
    LET data == chat_json(attempts)
    IN  IF data.raised \/ data.out.t # "obj"
        THEN [t |-> "decision", external_id |-> PyStr(Head(cands).id),
              external_source |-> Head(cands).source, confidence |-> 0, gnd_id |-> Null]
        ELSE PickFromData(data.out, cands)

\* _ask_llm_external_pick, lines 266-291.
_ask_llm_external_pick(attempts, cands) ==
    LET data == chat_json(attempts)
    IN  IF data.raised THEN NoDecision              \* except Exception, line 289
        ELSE IF data.out.t # "obj" THEN NoDecision  \* data.get: AttributeError
        ELSE PickFromData(data.out, cands)

(***************************************************************************)
(* The document (linked_data) and its mentions.                            *)
(* links is LinksAbsent (no "links" key), LinksNull ("links": None) or a   *)
(* dict [t |-> "dict", register, decision]; register is RegNull or a dict. *)
(***************************************************************************)
LinksAbsent == [t |-> "absent"]
LinksNull == [t |-> "null"]
RegNull == [t |-> "null"]
Links(register, decision) == [t |-> "dict", register |-> register, decision |-> decision]

\* A link set by an earlier stage of the pipeline (the local register).
PreLink ==
    Links([t |-> "reg", kind |-> "local", xml_id |-> <<"lassberg", "p", "0001">>,
           ref |-> <<"p", "1">>],
          [t |-> "null"])

NamedLabels ==
    {"PER", "ORG", "LOC", "LIT_WORK", "LIT_OBJECT", "BIBL", "MANUSCRIPT",
     "TIME", "MISC", "OTHER"}

\* (target_label, label) of a mention: a named label, an unmapped label that
\* arrives through the fallback key "label", and none at all.
LabelPairs ==
    {<<l, Absent>> : l \in NamedLabels} \cup {<<Absent, "EVENT">>, <<Absent, Absent>>}

LinkStates == {LinksAbsent, LinksNull, Links(RegNull, [t |-> "null"]), PreLink}

\* The first mention of a document takes every label with every state of its
\* links; the mentions after it take one label of each route of the loop, and
\* one of each state of the links.
FollowerKinds ==
    {<<<<"PER", Absent>>, LinksAbsent>>, <<<<"LOC", Absent>>, Links(RegNull, [t |-> "null"])>>,
     <<<<"BIBL", Absent>>, LinksAbsent>>, <<<<"TIME", Absent>>, LinksAbsent>>,
     <<<<"ORG", Absent>>, PreLink>>}

MentionKinds(i) ==
    IF i = 1 THEN {<<lp, lk>> : lp \in LabelPairs, lk \in LinkStates} ELSE FollowerKinds

MentionTexts == <<"Hauffe", "Elsterstadt", "Der Traum", "Meersburg">>
NormalizedTexts == <<"Wilhelm Hauff", "Elsterstadt", "Traum", "Meersburg">>

\* The mention at position i of all_entities; mentions at odd positions carry a
\* normalized_text, the others do not; evidence is what the upstream NER
\* ensemble attached, which this function never reads.
Mention(i, lp, links) ==
    [text |-> MentionTexts[i],
     normalized_text |-> IF i % 2 = 1 THEN NormalizedTexts[i] ELSE Absent,
     target_label |-> lp[1], label |-> lp[2], links |-> links,
     evidence |-> <<"ner", MentionTexts[i]>>]

RECURSIVE DocumentsOfLen(_)
DocumentsOfLen(n) ==
    IF n = 0 THEN {<<>>}
    ELSE {Append(d, Mention(n, k[1], k[2])) : d \in DocumentsOfLen(n - 1), k \in MentionKinds(n)}

Documents == UNION {DocumentsOfLen(n) : n \in 0..MaxMentions}

NoRegister == [t |-> "absent"]
Register(entries) == [t |-> "list", v |-> entries]

\* all_entities, line 300.
all_entities == entities \o added_by_llm

\* A faulty variant of SetLinks: the mention is replaced by a new dict that
\* keeps the text and the links only.
SetLinks_replacing_mention(ents, i, links) ==
    [ents EXCEPT ![i] = [text |-> @.text, normalized_text |-> Absent,
                         target_label |-> Absent, label |-> Absent, links |-> links,
                         evidence |-> Absent]]

\* The dict at position i of all_entities with its "links" replaced, line 357.
SetLinks(ents, i, links) == [ents EXCEPT ![i].links = links]

\* entity.get("normalized_text", entity.get("text", "")), line 314.
TextToLookup(e) == IF e.normalized_text # Absent THEN e.normalized_text ELSE e.text

\* entity.get("target_label") or entity.get("label") or "", line 315.
RawLabel(e) ==
    IF e.target_label # Absent /\ e.target_label # "" THEN e.target_label
    ELSE IF e.label # Absent /\ e.label # "" THEN e.label
    ELSE ""

\* entity.get("links", {}) of line 310 raises AttributeError on .get when the
\* value of "links" is None.
GuardRaises(e) == e.links = LinksNull

\* A faulty variant of AlreadyLinked: the guard of line 310 is missing.
AlreadyLinked_unguarded(e) == FALSE

\* Line 310: the mention carries a non-null links.register.

AlreadyLinked(e) == e.links.t = "dict" /\ e.links.register # RegNull

(***************************************************************************)
(* The remote world of the model: the answers the three services give.     *)
(***************************************************************************)
WDResponses ==
    {Timeout, NetErr, Http(503, NotJson), Http(404, NotJson), Http(200, NotJson),
     Http(200, JList), Http(200, EmptyObj),
     Http(200, WDObj(<<>>)),
     Http(200, WDObj(<<WDItem(JStr(Q1), "Hauffe")>>)),
     Http(200, WDObj(<<WDItem(JStr(Q1), "Hauffe"), WDItem(JAbsent, Absent)>>)),
     Http(200, WDObj(<<WDItem(JStr(Q1), "Hauffe"), BadItem>>))}

GNDResponses ==
    {Timeout, NetErr, Http(503, NotJson), Http(404, NotJson), Http(200, NotJson),
     Http(200, JList), Http(200, EmptyObj), Http(200, GNDNoResult),
     Http(200, GNDObj(<<>>)),
     Http(200, GNDObj(<<GNDItem("true", JStr(G11), "Wilhelm Hauff", 97)>>)),
     Http(200, GNDObj(<<GNDItem("false", JStr(G12), "Hauffe, W.", 40),
                        GNDItem("true", JStr(G11), "Wilhelm Hauff", 97)>>)),
     Http(200, GNDObj(<<GNDItem("true", JStr(G11), Absent, 97)>>))}

\* The {pick, confidence} objects and the other texts the reasoning service
\* may answer with.
Picks ==
    {JAbsent, JNull, JStr(NoneText), JStr(<<"N", "o", "n", "e">>), JStr(<<>>),
     JStr(Q1), JStr(<<" ">> \o Q1 \o <<" ">>), JStr(Q9), JStr(G11), JInt(11)}

Confidences ==
    {JAbsent, JNull, JStr(<<"h", "i", "g", "h">>), JStr(<<"0", ".", "8", "7">>),
     JNum(87), JNum(150)}

LLMObj(pick, confidence) == [t |-> "obj", pick |-> pick, confidence |-> confidence]

Completions ==
    {LLMObj(p, c) : p \in Picks, c \in Confidences} \cup {NotJson, JList, JNull, JInt(5)}

LLMFailures ==
    {Timeout, NetErr, Http(500, NotJson), Http(429, NotJson), Http(401, NotJson),
     Http(200, NotJson)}

\* What the Retry + 1 POSTs of one chat call meet: an answer at once, an answer
\* after one or two failures, failures only.
LLMAttempts ==
    {<<Http(200, ChatBody(c)), Timeout, Timeout>> : c \in Completions}
    \cup {<<f, Http(200, ChatBody(LLMObj(JStr(Q1), JNum(87)))), Timeout>> : f \in LLMFailures}
    \cup {<<f, f, Http(200, ChatBody(LLMObj(JStr(G11), JAbsent)))>> : f \in LLMFailures}
    \cup {<<f, g, f>> : f \in LLMFailures, g \in {Timeout, Http(429, NotJson)}}

\* The chat calls of the pipeline's runs: a pick of each kind with a
\* confidence of each kind, an answer of each malformed kind, a transport of
\* each failing kind.
RunAttempts ==
    {<<Http(200, ChatBody(c)), Timeout, Timeout>> :
        c \in {LLMObj(JStr(G11), JNum(87)),
               LLMObj(JStr(<<" ">> \o Q1 \o <<" ">>), JNum(150)),
               LLMObj(JStr(Q9), JNum(87)),
               LLMObj(JStr(<<"N", "o", "n", "e">>), JNum(87)),
               LLMObj(JStr(NoneText), JNum(87)),
               LLMObj(JStr(<<>>), JNum(87)),
               LLMObj(JAbsent, JAbsent),
               LLMObj(JStr(Q1), JNull),
               LLMObj(JStr(G11), JStr(<<"h", "i", "g", "h">>)),
               NotJson, JList}}
    \cup {<<Http(429, NotJson), NetErr, Http(200, ChatBody(LLMObj(JStr(G11), JNum(87))))>>,
          <<Timeout, Timeout, Timeout>>,
          <<Http(500, NotJson), Http(401, NotJson), Http(200, NotJson)>>}

\* str(uuid.uuid4())[:8], line 344: the values the generator yields in the model.
UuidPrefixes == {"1a2b3c4d", "deadbeef"}

(***************************************************************************)
(* external_lookup.py: lookup_unlinked_entities, lines 294-364.            *)
(* pc is "idle" (not running: before a run, or after a run returned),      *)
(* "loop" (at the head of the for loop, about to take all_entities[idx]),  *)
(* "adjudicate" (candidates gathered, line 340 is next) or "raised" (an    *)
(* exception left the function).                                           *)
(***************************************************************************)
SkipLabels == {"TIME", "MISC", "OTHER"}
PersonLabels == {"PER", "ORG"}
WorkLabels == {"LIT_WORK", "LIT_OBJECT", "BIBL", "MANUSCRIPT"}

InLoop == pc = "loop" /\ idx <= Len(all_entities)

\* Lines 300-306.
Start ==
    /\ pc \in {"idle", "raised"}
    /\ pc' = "loop"
    /\ idx' = 1
    /\ internal_register' =
          IF internal_register = NoRegister THEN Register(<<>>) ELSE internal_register
    /\ candidates' = <<>>
    /\ trace' = <<>>
    /\ UNCHANGED <<entities, added_by_llm, LOCAL_WORK_CACHE, call>>

\* Line 310 raises: "links" is None.
GuardError ==
    /\ InLoop
    /\ GuardRaises(all_entities[idx])
    /\ pc' = "raised"
    /\ candidates' = <<>>
    /\ trace' = <<>>
    /\ UNCHANGED <<entities, added_by_llm, internal_register, idx, LOCAL_WORK_CACHE, call>>

\* Lines 310-311.
SkipLinked ==
    /\ InLoop
    /\ ~GuardRaises(all_entities[idx])
    /\ AlreadyLinked(all_entities[idx])
    /\ idx' = idx + 1
    /\ candidates' = <<>>
    /\ trace' = <<>>
    /\ UNCHANGED <<entities, added_by_llm, internal_register, pc, LOCAL_WORK_CACHE, call>>

Unlinked(e) == ~GuardRaises(e) /\ ~AlreadyLinked(e)

\* Lines 318-320.
SkipLabel ==
    /\ InLoop
    /\ Unlinked(all_entities[idx])
    /\ RawLabel(all_entities[idx]) \in SkipLabels
    /\ idx' = idx + 1
    /\ candidates' = <<>>
    /\ trace' = <<>>
    /\ UNCHANGED <<entities, added_by_llm, internal_register, pc, LOCAL_WORK_CACHE, call>>

\* What trace keeps of a call during a run: the request, whether the remote
\* side failed, and what the caller made of the answer.
RECURSIVE Logged(_)
Logged(calls) ==
    IF calls = <<>> THEN <<>>
    ELSE <<[Head(calls) EXCEPT !.failure = IF @ = "none" THEN "none" ELSE "failed"]>>
         \o Logged(Tail(calls))

\* A faulty variant of AfterGather: the adjudication follows whether or not
\* candidates were found.
AfterGather_always_adjudicate(r) ==
    /\ candidates' = r.out
    /\ trace' = r.calls
    /\ pc' = "adjudicate"
    /\ idx' = idx
    /\ UNCHANGED <<entities, added_by_llm, internal_register, LOCAL_WORK_CACHE, call>>

\* Lines 334-336 and 340: with no candidates the loop continues, otherwise the
\* adjudication is next.
AfterGather(r) ==
    /\ candidates' = r.out
    /\ trace' = r.calls
    /\ IF r.out = <<>>
       THEN pc' = "loop" /\ idx' = idx + 1
       ELSE pc' = "adjudicate" /\ idx' = idx
    /\ UNCHANGED <<entities, added_by_llm, internal_register, LOCAL_WORK_CACHE, call>>

\* Lines 326-327.
LookupPerson ==
    /\ InLoop
    /\ Unlinked(all_entities[idx])
    /\ RawLabel(all_entities[idx]) \in PersonLabels
    /\ \E r \in {LET g == _lookup_person_external(TextToLookup(all_entities[idx]), wd, gnd)
                  IN  Returned(g.out, Logged(g.calls)) :
                  wd \in WDResponses, gnd \in GNDResponses} :
          AfterGather(r)

\* Lines 328-329.
LookupPlace ==
    /\ InLoop
    /\ Unlinked(all_entities[idx])
    /\ RawLabel(all_entities[idx]) = "LOC"
    /\ \E r \in {LET g == _lookup_place_external(TextToLookup(all_entities[idx]), wd, gnd)
                  IN  Returned(g.out, Logged(g.calls)) :
                  wd \in WDResponses, gnd \in GNDResponses} :
          AfterGather(r)

\* Lines 330-331: _lookup_work_external is called with one argument and has two
\* required parameters, so the call raises TypeError before its body runs.
LookupWork ==
    /\ InLoop
    /\ Unlinked(all_entities[idx])
    /\ RawLabel(all_entities[idx]) \in WorkLabels
    /\ pc' = "raised"
    /\ candidates' = <<>>
    /\ trace' = <<>>
    /\ UNCHANGED <<entities, added_by_llm, internal_register, idx, LOCAL_WORK_CACHE, call>>

\* Lines 324 and 334-336: no branch of the routing matches the label.
NoRoute ==
    /\ InLoop
    /\ Unlinked(all_entities[idx])
    /\ RawLabel(all_entities[idx]) \notin SkipLabels \cup PersonLabels \cup {"LOC"} \cup WorkLabels
    /\ AfterGather(Returned(<<>>, <<>>))

\* The chat_json call of line 272 as trace records it: the exception it raised
\* ("none" when it returned) and the "pick" of the answer (JAbsent when the
\* answer has none).
LlmCall(attempts, e, cands) ==
    LET data == chat_json(attempts)
    IN  Call("LLM", TextToLookup(e), e.target_label, "chat_json", 0, cands,
             IF data.raised THEN data.out
             ELSE IF data.out.t # "obj" THEN "AttributeError" ELSE "none",
             IF ~data.raised /\ data.out.t = "obj" THEN data.out.pick ELSE JAbsent)

\* trace when the adjudication of a mention is over: the requests of the
\* gathering, then the chat_json call.
RECURSIVE Requests(_)
Requests(calls) ==
    IF calls = <<>> THEN <<>>
    ELSE <<[Head(calls) EXCEPT !.failure = "none", !.out = <<>>]>> \o Requests(Tail(calls))

AfterAdjudication(attempts, e) ==
    Append(Requests(trace), LlmCall(attempts, e, candidates))

\* f"NEW_{raw_label}_{str(uuid.uuid4())[:8]}", line 344.
UniqueId(raw_label, prefix) == <<"NEW", raw_label, prefix>>

\* Lines 347-353.
RegisterEntry(e, unique_id, external_link) ==
    [xml_id |-> unique_id, text |-> e.text, normalized_text |-> TextToLookup(e),
     target_label |-> RawLabel(e), external_id |-> external_link.external_id,
     external_source |-> external_link.external_source,
     confidence |-> external_link.confidence, gnd_id |-> external_link.gnd_id]

\* A faulty variant of AppendEntry: the new entry is put first.
PrependEntry(register, entry) == Register(<<entry>> \o register.v)

\* linked_data["internal_register"].append(...), line 347.
AppendEntry(register, entry) == Register(Append(register.v, entry))

\* Lines 357-360.
NewLinks(unique_id, external_link) ==
    Links([t |-> "reg", kind |-> "external_new", xml_id |-> unique_id,
           ref |-> external_link.external_id],
          [t |-> "decision", method |-> "llm_external_adjudication",
           score |-> external_link.confidence,
           external_source |-> external_link.external_source])

\* Lines 340-342, the adjudicator abstains: nothing is recorded.
Abstain ==
    /\ pc = "adjudicate"
    /\ \E attempts \in RunAttempts :
          /\ _ask_llm_external_pick(attempts, candidates) = NoDecision
          /\ trace' = AfterAdjudication(attempts, all_entities[idx])
    /\ pc' = "loop"
    /\ idx' = idx + 1
    /\ UNCHANGED <<entities, added_by_llm, internal_register, candidates, LOCAL_WORK_CACHE, call>>

\* Lines 340-361, the adjudicator picks: the entry is appended, the link set.
Link ==
    /\ pc = "adjudicate"
    /\ \E attempts \in RunAttempts, prefix \in UuidPrefixes :
          LET e == all_entities[idx]
              external_link == _ask_llm_external_pick(attempts, candidates)
              unique_id == UniqueId(RawLabel(e), prefix)
          IN  /\ external_link # NoDecision
              /\ internal_register' =
                    AppendEntry(internal_register, RegisterEntry(e, unique_id, external_link))
              /\ IF idx <= Len(entities)
                 THEN /\ entities' = SetLinks(entities, idx, NewLinks(unique_id, external_link))
                      /\ added_by_llm' = added_by_llm
                 ELSE /\ added_by_llm' =
                            SetLinks(added_by_llm, idx - Len(entities),
                                     NewLinks(unique_id, external_link))
                      /\ entities' = entities
              /\ trace' = AfterAdjudication(attempts, e)
    /\ pc' = "loop"
    /\ idx' = idx + 1
    /\ UNCHANGED <<candidates, LOCAL_WORK_CACHE, call>>

\* Lines 363-364: the loop is over, the document is returned.
Finish ==
    /\ pc = "loop"
    /\ idx > Len(all_entities)
    /\ pc' = "idle"
    /\ candidates' = <<>>
    /\ trace' = <<>>
    /\ UNCHANGED <<entities, added_by_llm, internal_register, idx, LOCAL_WORK_CACHE, call>>

NoCall == [fn |-> "none"]

Init ==
    /\ \E doc \in Documents, k \in 0..MaxMentions :
          /\ k <= Len(doc)
          /\ entities = SubSeq(doc, 1, k)
          /\ added_by_llm = SubSeq(doc, k + 1, Len(doc))
    /\ internal_register = NoRegister
    /\ pc = "idle"
    /\ idx = 1
    /\ candidates = <<>>
    /\ trace = <<>>
    /\ LOCAL_WORK_CACHE = <<>>
    /\ call = NoCall

Next ==
    \/ Start
    \/ GuardError
    \/ SkipLinked
    \/ SkipLabel
    \/ LookupPerson
    \/ LookupPlace
    \/ LookupWork
    \/ NoRoute
    \/ Abstain
    \/ Link
    \/ Finish

Spec == Init /\ [][Next]_vars

(***************************************************************************)
(* authority.py: the Type Reconciler and the adapters of that module.      *)
(* An entity type is text (a sequence of characters).                      *)
(***************************************************************************)
T_PER == <<"P", "E", "R">>
T_PERSON == <<"P", "E", "R", "S", "O", "N">>
T_LOC == <<"L", "O", "C">>
T_LOCATION == <<"L", "O", "C", "A", "T", "I", "O", "N">>
T_PLACE == <<"P", "L", "A", "C", "E">>
T_WORK == <<"W", "O", "R", "K">>
T_TITLE == <<"T", "I", "T", "L", "E">>
T_UNKNOWN == <<"U", "N", "K", "N", "O", "W", "N">>

\* A faulty variant of normalize_type: the comparison is case-sensitive.
normalize_type_case_sensitive(ent_type) ==
    IF ent_type = <<>> THEN T_UNKNOWN
    ELSE LET t == Strip(ent_type)
         IN  IF t \in {T_PER, T_PERSON} THEN T_PER
             ELSE IF t \in {T_LOC, T_LOCATION, T_PLACE} THEN T_LOC
             ELSE IF t \in {T_WORK, T_TITLE} THEN T_WORK
             ELSE Upper(t)

\* normalize_type, lines 24-34.
normalize_type(ent_type) ==
    IF ent_type = <<>> THEN T_UNKNOWN
    ELSE LET t == Upper(Strip(ent_type))
         IN  IF t \in {T_PER, T_PERSON} THEN T_PER
             ELSE IF t \in {T_LOC, T_LOCATION, T_PLACE} THEN T_LOC
             ELSE IF t \in {T_WORK, T_TITLE} THEN T_WORK
             ELSE t

\* gnd_type_filter, lines 36-44.
gnd_type_filter(ent_type) ==
    LET t == normalize_type(ent_type)
    IN  IF t = T_PER THEN "type:Person"
        ELSE IF t = T_LOC THEN "type:PlaceOrGeographicName"
        ELSE IF t = T_WORK THEN "type:Work"
        ELSE Null

\* WIKIDATA_ALLOWED_INSTANCE_OF, lines 46-53; {} stands for a missing key.
WIKIDATA_ALLOWED_INSTANCE_OF(t) ==
    IF t = T_PER THEN {"Q5"}
    ELSE IF t = T_LOC
    THEN {"Q486972", "Q515", "Q6256", "Q56061", "Q82794", "Q2221906", "Q23442", "Q8502", "Q4022"}
    ELSE IF t = T_WORK THEN {"Q17537576", "Q47461344", "Q571", "Q7725634", "Q13442814"}
    ELSE {}

\* query_wikidata_raw, lines 69-98: nothing catches what requests, raise_for_status,
\* r.json() or the loop raise.
RECURSIVE RawResults(_)
RawResults(items) ==
    IF items = <<>> THEN <<>>
    ELSE <<[id |-> IF Head(items).id = JAbsent THEN JNull ELSE Head(items).id,
            label |-> IF Head(items).label = Absent THEN Null ELSE Head(items).label]>>
         \o RawResults(Tail(items))

query_wikidata_raw(label, limit, resp) ==
    LET c(out) == <<Call("Wikidata", label, "item", "item", limit, <<>>,
                         FailureOf(resp, WDMalformed), out)>>
    IN  IF resp.kind = "timeout" THEN Raised("Timeout", c(<<>>))
        ELSE IF resp.kind = "neterr" THEN Raised("ConnectionError", c(<<>>))
        ELSE IF RaisesForStatus(resp) THEN Raised("HTTPError", c(<<>>))
        ELSE IF resp.body.t = "notjson" THEN Raised("JSONDecodeError", c(<<>>))
        ELSE IF resp.body.t # "obj" THEN Raised("AttributeError", c(<<>>))
        ELSE LET items == IF "search" \in DOMAIN resp.body THEN resp.body.search ELSE <<>>
             IN  IF \E i \in 1..Len(items) : items[i].bad
                 THEN Raised("AttributeError", c(<<>>))
                 ELSE Returned(Take(RawResults(items), limit), c(Take(RawResults(items), limit)))

\* Items of the lobid answer's "member" list.
RECURSIVE GndMembers(_)
GndMembers(items) ==
    IF items = <<>> THEN <<>>
    ELSE <<[id |-> IF Head(items).id = JAbsent THEN JNull ELSE Head(items).id,
            label |-> IF Head(items).name = Absent THEN Null ELSE Head(items).name]>>
         \o GndMembers(Tail(items))

LobidObj(member) == [t |-> "obj", member |-> member]

LobidMalformed(body) == body.t # "obj" \/ "member" \notin DOMAIN body

\* query_gnd, lines 156-180: the filter parameter is sent only when the type maps
\* (native is Null for an unfiltered query); nothing catches what is raised.
query_gnd(label, ent_type, limit, resp) ==
    LET type_filter == gnd_type_filter(ent_type)
        c(out) == <<Call("GND", label, ent_type, type_filter, limit, <<>>,
                         FailureOf(resp, LobidMalformed), out)>>
    IN  IF resp.kind = "timeout" THEN Raised("Timeout", c(<<>>))
        ELSE IF resp.kind = "neterr" THEN Raised("ConnectionError", c(<<>>))
        ELSE IF RaisesForStatus(resp) THEN Raised("HTTPError", c(<<>>))
        ELSE IF resp.body.t = "notjson" THEN Raised("JSONDecodeError", c(<<>>))
        ELSE IF resp.body.t # "obj" THEN Raised("AttributeError", c(<<>>))
        ELSE LET members == IF "member" \in DOMAIN resp.body THEN resp.body.member ELSE <<>>
             IN  Returned(Take(GndMembers(members), limit), c(Take(GndMembers(members), limit)))

\* A URI is the sequence of its "/"-separated parts; uri.rsplit("/", 1)[-1] is
\* the last of them.
EntityUri(qid) == <<"http://www.wikidata.org/entity", qid>>
RSplitLast(uri) == uri[Len(uri)]

\* A binding of the SPARQL answer: the item, and its class when the OPTIONAL
\* clause matched.
Binding(qid, inst) == [item |-> EntityUri(qid), inst |-> EntityUri(inst)]
BindingNoInst(qid) == [item |-> EntityUri(qid)]

SparqlObj(bindings) == [t |-> "obj", bindings |-> bindings]

SparqlMalformed(body) == body.t # "obj"

\* Lines 120-127: inst_map as a function from qid to the list of its classes.
RECURSIVE InstMap(_, _)
InstMap(bindings, qids) ==
    IF bindings = <<>> THEN [q \in {qids[i] : i \in 1..Len(qids)} |-> <<>>]
    ELSE LET m == InstMap(SubSeq(bindings, 1, Len(bindings) - 1), qids)
             b == bindings[Len(bindings)]
             qid == RSplitLast(b.item)
         IN  IF "inst" \in DOMAIN b
             THEN [q \in DOMAIN m \cup {qid} |->
                      IF q = qid
                      THEN Append(IF q \in DOMAIN m THEN m[q] ELSE <<>>, RSplitLast(b.inst))
                      ELSE m[q]]
             ELSE m

\* fetch_wikidata_instance_of, lines 100-128: one request for all the qids, none
\* for an empty list; nothing catches what is raised.
fetch_wikidata_instance_of(qids, resp) ==
    LET c == <<Call("SPARQL", qids, "item", "wdt:P31", Len(qids), <<>>,
                    FailureOf(resp, SparqlMalformed), <<>>)>>
    IN  IF qids = <<>> THEN Returned(<<>>, <<>>)
        ELSE IF resp.kind = "timeout" THEN Raised("Timeout", c)
        ELSE IF resp.kind = "neterr" THEN Raised("ConnectionError", c)
        ELSE IF RaisesForStatus(resp) THEN Raised("HTTPError", c)
        ELSE IF resp.body.t = "notjson" THEN Raised("JSONDecodeError", c)
        ELSE IF resp.body.t # "obj" THEN Raised("AttributeError", c)
        ELSE Returned(InstMap(resp.body.bindings, qids), c)

\* [c["id"] for c in candidates if c.get("id")], line 138.
RECURSIVE Qids(_)
Qids(cands) ==
    IF cands = <<>> THEN <<>>
    ELSE (IF Head(cands).id.t = "str" /\ Head(cands).id.v # <<>>
          THEN <<Head(cands).id.v>> ELSE <<>>) \o Qids(Tail(cands))

\* inst_map.get(qid, []), line 143.
InstsOf(inst_map, id) ==
    IF id.t = "str" /\ id.v \in DOMAIN inst_map THEN inst_map[id.v] ELSE <<>>

\* Lines 140-147.
RECURSIVE Filtered(_, _, _)
Filtered(cands, inst_map, allowed) ==
    IF cands = <<>> THEN <<>>
    ELSE LET c == Head(cands)
             insts == InstsOf(inst_map, c.id)
         IN  (IF \E i \in 1..Len(insts) : insts[i] \in allowed
              THEN <<[id |-> c.id, label |-> c.label, instance_of |-> insts]>>
              ELSE <<>>) \o Filtered(Tail(cands), inst_map, allowed)

\* A faulty variant of filter_wikidata_by_type: fail-closed, the filtered list
\* is returned even when it is empty.
filter_wikidata_by_type_closed(cands, ent_type, resp) ==
    LET ent_type_norm == normalize_type(ent_type)
        allowed == WIKIDATA_ALLOWED_INSTANCE_OF(ent_type_norm)
    IN  IF allowed = {} \/ cands = <<>> THEN Returned(cands, <<>>)
        ELSE LET inst_map == fetch_wikidata_instance_of(Qids(cands), resp)
             IN  IF inst_map.raised THEN inst_map
                 ELSE Returned(Filtered(cands, inst_map.out, allowed), inst_map.calls)

\* filter_wikidata_by_type, lines 130-150.
filter_wikidata_by_type(cands, ent_type, resp) ==
    LET ent_type_norm == normalize_type(ent_type)
        allowed == WIKIDATA_ALLOWED_INSTANCE_OF(ent_type_norm)
    IN  IF allowed = {} \/ cands = <<>> THEN Returned(cands, <<>>)
        ELSE LET inst_map == fetch_wikidata_instance_of(Qids(cands), resp)
             IN  IF inst_map.raised THEN inst_map
                 ELSE LET filtered == Filtered(cands, inst_map.out, allowed)
                      IN  IF filtered # <<>> THEN Returned(filtered, inst_map.calls)
                          ELSE Returned(cands, inst_map.calls)

(***************************************************************************)
(* Direct calls of the functions, one at a time, on inputs drawn from the  *)
(* model's remote world.  call records the function, its arguments and     *)
(* what came back; trace the remote calls it issued.                       *)
(***************************************************************************)
CallRecord(fn, arg, r) == [fn |-> fn, arg |-> arg, raised |-> r.raised, out |-> r.out]

\* Catalogue files: work_files maps a source name to a path.
File(source, exists, lines) == [source |-> source, exists |-> exists, lines |-> lines]

TraumLine == WorkLine(JStr(W1), "Der Traum", "", 92, 0)
ChronikLine == WorkLine(JStr(<<"W", "2">>), "Chronik", "", 30, 0)
TraumbuchLine == WorkLine(JStr(<<"W", "3">>), "Traumbuch", "Der Traum; Traeume", 60, 100)

WorkFileSets ==
    {<<>>,
     <<File("lassberg", TRUE, <<TraumLine>>)>>,
     <<File("lassberg", TRUE, <<ChronikLine>>)>>,
     <<File("lassberg", TRUE, <<TraumLine, TraumbuchLine>>)>>,
     <<File("lassberg", TRUE, <<BadLine, TraumLine>>)>>,
     <<File("lassberg", FALSE, <<TraumLine>>)>>,
     <<File("lassberg", TRUE, <<ChronikLine>>), File("kalliope", TRUE, <<TraumbuchLine>>)>>}

QueryTexts == {"Der Traum", "Hauffe"}

CallLookupWork ==
    /\ pc = "harness"
    /\ call = NoCall
    /\ \E text \in QueryTexts, work_files \in WorkFileSets,
          gnd1 \in GNDResponses, gnd2 \in GNDResponses :
          LET cache == CacheAfterCall(LOCAL_WORK_CACHE, work_files)
              r == _lookup_work_external(text, cache, gnd1, gnd2)
          IN  /\ LOCAL_WORK_CACHE' = cache
              /\ call' = CallRecord("_lookup_work_external", [text |-> text], r)
              /\ trace' = r.calls
    /\ UNCHANGED <<entities, added_by_llm, internal_register, pc, idx, candidates>>

\* A catalogue with more than TopN titles at or above the threshold, titles
\* just below and at it, equal scores, and alternate titles that raise a
\* score, that do not, and that are empty.
Title(n, alt_titles, sim, alt_sim) ==
    WorkLine(JStr(<<"T", NatStr(n)[1]>>), "Traum", alt_titles, sim, alt_sim)

TitleLines ==
    <<Title(1, "", 74, 0), Title(2, "", 75, 0), Title(3, "", 76, 0),
      Title(4, "Der Traum", 60, 100), Title(5, "Traeume", 80, 20),
      Title(6, "", 75, 0), Title(7, "", 92, 0), Title(8, "", 30, 99)>>

LocalFileSets ==
    {<<>>,
     <<File("lassberg", FALSE, <<TraumLine>>)>>,
     <<File("lassberg", TRUE, <<TraumLine, TraumbuchLine>>)>>,
     <<File("lassberg", TRUE, TitleLines)>>,
     <<File("lassberg", TRUE, SubSeq(TitleLines, 1, 4)),
       File("kalliope", TRUE, SubSeq(TitleLines, 5, 8))>>}

\* The sources whose files a call reads: those of lines 47-49, when line 45
\* finds the cache empty.
FilesRead(cache, work_files) ==
    IF cache = <<>>
    THEN [i \in 1..Len(LoadFiles(work_files)) |-> LoadFiles(work_files)[i].source]
    ELSE <<>>

\* A call of _search_local_work_cache, the first of the process or a later one.
CallSearchLocal ==
    /\ pc = "harness"
    /\ call = NoCall \/ call.fn = "_search_local_work_cache"
    /\ \E text \in QueryTexts, work_files \in LocalFileSets :
          LET cache == CacheAfterCall(LOCAL_WORK_CACHE, work_files)
              out == _search_local_work_cache(text, cache)
          IN  /\ LOCAL_WORK_CACHE' = cache
              /\ call' = [fn |-> "_search_local_work_cache",
                          arg |-> [text |-> text, work_files |-> work_files],
                          raised |-> FALSE, out |-> out,
                          files_read |-> FilesRead(LOCAL_WORK_CACHE, work_files)]
              /\ trace' = <<>>
    /\ UNCHANGED <<entities, added_by_llm, internal_register, pc, idx, candidates>>

GndEntityTypes == {"Person", "Place", "Work", "CorporateBody", "Event"}

CallSearchGnd ==
    /\ pc = "harness"
    /\ call = NoCall
    /\ \E text \in QueryTexts, entity_type \in GndEntityTypes, resp \in GNDResponses :
          LET r == _search_gnd(text, entity_type, PersonLimit, resp)
          IN  /\ call' = CallRecord("_search_gnd",
                                    [text |-> text, entity_type |-> entity_type, resp |-> resp], r)
              /\ trace' = r.calls
    /\ UNCHANGED <<entities, added_by_llm, internal_register, pc, idx, candidates, LOCAL_WORK_CACHE>>

CallSearchWikidataApi ==
    /\ pc = "harness"
    /\ call = NoCall
    /\ \E text \in QueryTexts, entity_type \in {"PER", "LOC"}, resp \in WDResponses :
          LET r == _search_wikidata_api(text, entity_type, PersonLimit, resp)
          IN  /\ call' = CallRecord("_search_wikidata_api",
                                    [text |-> text, entity_type |-> entity_type, resp |-> resp], r)
              /\ trace' = r.calls
    /\ UNCHANGED <<entities, added_by_llm, internal_register, pc, idx, candidates, LOCAL_WORK_CACHE>>

DefaultLimit == 30

CallQueryWikidataRaw ==
    /\ pc = "harness"
    /\ call = NoCall
    /\ \E text \in QueryTexts, resp \in WDResponses :
          LET r == query_wikidata_raw(text, DefaultLimit, resp)
          IN  /\ call' = CallRecord("query_wikidata_raw", [text |-> text, resp |-> resp], r)
              /\ trace' = r.calls
    /\ UNCHANGED <<entities, added_by_llm, internal_register, pc, idx, candidates, LOCAL_WORK_CACHE>>

LobidResponses ==
    {Timeout, NetErr, Http(503, NotJson), Http(404, NotJson), Http(200, NotJson),
     Http(200, JList), Http(200, EmptyObj), Http(200, LobidObj(<<>>)),
     Http(200, LobidObj(<<GNDItem("true", JStr(G11), "Wilhelm Hauff", 97)>>)),
     Http(200, LobidObj(<<GNDItem("true", JAbsent, Absent, 0)>>))}

EntTypes ==
    {T_PER, <<" ">> \o Lower(T_PERSON), T_LOC, Lower(T_PLACE), T_WORK,
     <<"O", "R", "G">>, <<"o", "r", "g">>, <<>>, <<" ">>}

CallQueryGnd ==
    /\ pc = "harness"
    /\ call = NoCall
    /\ \E text \in QueryTexts, ent_type \in EntTypes, resp \in LobidResponses :
          LET r == query_gnd(text, ent_type, DefaultLimit, resp)
          IN  /\ call' = CallRecord("query_gnd",
                                    [text |-> text, ent_type |-> ent_type, resp |-> resp], r)
              /\ trace' = r.calls
    /\ UNCHANGED <<entities, added_by_llm, internal_register, pc, idx, candidates, LOCAL_WORK_CACHE>>

\* Candidates as query_wikidata_raw builds them, and the class lookup's answers.
RawCand(id, label) == [id |-> id, label |-> label]

RawCandLists ==
    {<<>>,
     <<RawCand(JStr(Q1), "Hauffe")>>,
     <<RawCand(JStr(Q1), "Hauffe"), RawCand(JStr(Q2), "Hauff")>>,
     <<RawCand(JStr(Q2), "Hauff"), RawCand(JNull, Null), RawCand(JStr(Q1), "Hauffe")>>,
     <<RawCand(JStr(Q1), "Hauffe"), RawCand(JStr(Q9), "Hauffe"), RawCand(JStr(Q2), "Hauff"),
       RawCand(JStr(Q1), "Hauffe")>>}

ClassChoices == {<<>>, <<"Q5">>, <<"Q515">>, <<"Q4167410">>, <<"Q4167410", "Q5">>}

RECURSIVE BindingsFor(_, _)
BindingsFor(qid, classes) ==
    IF classes = <<>> THEN <<BindingNoInst(qid)>>
    ELSE IF Len(classes) = 1 THEN <<Binding(qid, classes[1])>>
    ELSE <<Binding(qid, Head(classes))>> \o BindingsFor(qid, Tail(classes))

SparqlResponses ==
    {Timeout, NetErr, Http(500, NotJson), Http(200, NotJson), Http(200, JList),
     Http(200, SparqlObj(<<>>))}
    \cup {Http(200, SparqlObj(BindingsFor(Q1, c1) \o BindingsFor(Q2, c2) \o BindingsFor(Q9, c9))) :
             c1 \in ClassChoices, c2 \in ClassChoices, c9 \in {<<>>, <<"Q515">>}}

CallFilterWikidataByType ==
    /\ pc = "harness"
    /\ call = NoCall
    /\ \E cands \in RawCandLists, ent_type \in EntTypes, resp \in SparqlResponses :
          LET r == filter_wikidata_by_type(cands, ent_type, resp)
          IN  /\ call' = CallRecord("filter_wikidata_by_type",
                                    [cands |-> cands, ent_type |-> ent_type, resp |-> resp], r)
              /\ trace' = r.calls
    /\ UNCHANGED <<entities, added_by_llm, internal_register, pc, idx, candidates, LOCAL_WORK_CACHE>>

\* Candidate lists as the aggregator hands them to the adjudicator.
WDCand(id, label) == [label |-> label, id |-> id, source |-> "Wikidata"]
GNDCand(id, label, score) == [label |-> label, id |-> id, source |-> "GND", score |-> score]

CandLists ==
    {<<WDCand(JStr(Q1), "Hauffe")>>,
     <<GNDCand(JStr(G11), "Wilhelm Hauff", 97)>>,
     <<WDCand(JStr(Q1), "Hauffe"), GNDCand(JStr(G11), "Wilhelm Hauff", 97)>>,
     <<WDCand(JStr(Q1), "Hauffe"), WDCand(JNull, Null), GNDCand(JStr(G11), "Wilhelm Hauff", 97)>>}

CallAskLlm ==
    /\ pc = "harness"
    /\ call = NoCall
    /\ \E attempts \in LLMAttempts, cands \in CandLists :
          LET d == _ask_llm_external_pick(attempts, cands)
          IN  /\ call' = CallRecord("_ask_llm_external_pick",
                                    [attempts |-> attempts, cands |-> cands],
                                    Returned(d, <<>>))
              /\ trace' = <<>>
    /\ UNCHANGED <<entities, added_by_llm, internal_register, pc, idx, candidates, LOCAL_WORK_CACHE>>

(***************************************************************************)
(* external_lookup.py: _create_retry_session, lines 78-94, and the two     *)
(* ways the adapters send a GET.  wire[k] is what the endpoint does to the *)
(* k-th transmission of one request.                                       *)
(***************************************************************************)
Retries == 3

StatusForcelist == {500, 502, 503, 504}

\* What urllib3's Retry sends again: a failed connection or read, and a
\* status of the forcelist.
Retryable(resp) ==
    \/ resp.kind \in {"timeout", "neterr"}
    \/ resp.kind = "http" /\ resp.status \in StatusForcelist

\* session.get of a session made by _create_retry_session: up to Retries
\* retransmissions; when they are used up the last failure is raised (a
\* forcelist status as RetryError, a requests exception like NetErr).
RECURSIVE RetrySessionGet(_, _)
RetrySessionGet(wire, sent) ==
    LET resp == wire[sent + 1]
    IN  IF Retryable(resp) /\ sent < Retries THEN RetrySessionGet(wire, sent + 1)
        ELSE IF resp.kind = "http" /\ resp.status \in StatusForcelist THEN NetErr
        ELSE resp

\* requests.get: one transmission.
RequestsGet(wire) == wire[1]

\* The endpoint's behaviour over the transmissions of one query: any failure
\* or an answer first, then unavailability, timeouts or an answer.
WDAnswer == Http(200, WDObj(<<WDItem(JStr(Q1), "Hauffe")>>))
GNDAnswer == Http(200, GNDObj(<<GNDItem("true", JStr(G11), "Wilhelm Hauff", 97)>>))

Wires(answer) ==
    {<<first>> \o later :
        first \in {Timeout, NetErr, Http(404, NotJson), answer}
                  \cup {Http(st, NotJson) : st \in StatusForcelist},
        later \in [1..Retries -> {Timeout, Http(503, NotJson), answer}]}

\* _search_wikidata_api sends through the retry session (lines 121-124).
CallSearchWikidataApiOnWire ==
    /\ pc = "harness"
    /\ call = NoCall
    /\ \E text \in QueryTexts, wire \in Wires(WDAnswer) :
          LET resp == RetrySessionGet(wire, 0)
              r == _search_wikidata_api(text, "PER", PersonLimit, resp)
          IN  /\ call' = CallRecord("_search_wikidata_api",
                                    [text |-> text, entity_type |-> "PER", resp |-> resp,
                                     wire |-> wire], r)
              /\ trace' = r.calls
    /\ UNCHANGED <<entities, added_by_llm, internal_register, pc, idx, candidates, LOCAL_WORK_CACHE>>

\* _search_gnd sends with requests.get (line 176).
CallSearchGndOnWire ==
    /\ pc = "harness"
    /\ call = NoCall
    /\ \E text \in QueryTexts, wire \in Wires(GNDAnswer) :
          LET resp == RequestsGet(wire)
              r == _search_gnd(text, "Person", PersonLimit, resp)
          IN  /\ call' = CallRecord("_search_gnd",
                                    [text |-> text, entity_type |-> "Person", resp |-> resp,
                                     wire |-> wire], r)
              /\ trace' = r.calls
    /\ UNCHANGED <<entities, added_by_llm, internal_register, pc, idx, candidates, LOCAL_WORK_CACHE>>

(***************************************************************************)
(* saia_client.py: the construction of SaiaChatClient, lines 21-50.        *)
(* A credential is a string; one that is not given is None (Null) or "".   *)
(***************************************************************************)
Falsy(x) == x \in {Null, ""}

\* __init__, lines 21-43: api_key is the constructor's argument,
\* saia_api_key the value of config.saia_api_key.
SaiaChatClient_init(api_key, saia_api_key) ==
    LET self == [api_key |-> saia_api_key]                       \* line 34
    IN  IF Falsy(self.api_key) THEN Raised("ValueError", <<>>)   \* lines 42-43
        ELSE Returned(self, <<>>)

\* _headers, lines 45-50: f"Bearer {self.api_key}".
_headers(self) == [Authorization |-> <<"Bearer", self.api_key>>]

ApiKeyArguments == {Null, "", "key-of-the-caller"}
ConfigKeys == {Null, "", "key-of-the-config", "key-of-the-caller"}

CallSaiaInit ==
    /\ pc = "harness"
    /\ call = NoCall
    /\ \E api_key \in ApiKeyArguments, saia_api_key \in ConfigKeys :
          LET r == SaiaChatClient_init(api_key, saia_api_key)
          IN  call' = [fn |-> "SaiaChatClient.__init__",
                       arg |-> [api_key |-> api_key, saia_api_key |-> saia_api_key],
                       raised |-> r.raised, out |-> r.out,
                       headers |-> IF r.raised THEN Null ELSE _headers(r.out)]
    /\ trace' = <<>>
    /\ UNCHANGED <<entities, added_by_llm, internal_register, pc, idx, candidates, LOCAL_WORK_CACHE>>

\* Chat calls with retry from 0 to MaxRetry and a backoff of 0, 1 or 2 seconds;
\* each POST meets a timeout, a refused connection, a client-error or
\* server-error status, a 2xx answer that is no JSON, or a completion.
MaxRetry == 2

Backoffs == {0, 1, 2}

ChatResponses ==
    {Timeout, NetErr, Http(400, NotJson), Http(401, NotJson), Http(404, NotJson),
     Http(429, NotJson), Http(503, NotJson), Http(200, NotJson),
     Http(200, ChatBody(LLMObj(JStr(Q1), JNum(87))))}

CallSaiaChat ==
    /\ pc = "harness"
    /\ call = NoCall
    /\ \E retry \in 0..MaxRetry, retry_backoff_s \in Backoffs :
          \E attempts \in [1..(retry + 1) -> ChatResponses] :
             LET r == SaiaChatLoop(attempts, 0, retry, retry_backoff_s)
             IN  call' = [fn |-> "SaiaChatClient.chat",
                          arg |-> [attempts |-> attempts, retry |-> retry,
                                   retry_backoff_s |-> retry_backoff_s],
                          raised |-> r.raised, out |-> r.out, events |-> r.events]
    /\ trace' = <<>>
    /\ UNCHANGED <<entities, added_by_llm, internal_register, pc, idx, candidates, LOCAL_WORK_CACHE>>

CallOllamaChat ==
    /\ pc = "harness"
    /\ call = NoCall
    /\ \E retry \in 0..MaxRetry, retry_backoff_s \in Backoffs :
          \E attempts \in [1..(retry + 1) -> ChatResponses] :
             LET r == OllamaChatLoop(attempts, 0, retry, retry_backoff_s)
             IN  call' = [fn |-> "OllamaChatClient.chat",
                          arg |-> [attempts |-> attempts, retry |-> retry,
                                   retry_backoff_s |-> retry_backoff_s],
                          raised |-> r.raised, out |-> r.out, events |-> r.events]
    /\ trace' = <<>>
    /\ UNCHANGED <<entities, added_by_llm, internal_register, pc, idx, candidates, LOCAL_WORK_CACHE>>

\* The aggregator's gathering for a PER and for a LOC mention.  instance_of is
\* what the Knowledge-Base holds as the classes of the two items its search
\* returns (what a class lookup would show); the aggregator is not given it.
CallLookupPersonOrPlace ==
    /\ pc = "harness"
    /\ call = NoCall
    /\ \E text \in QueryTexts, label \in {"PER", "LOC"},
          gnd \in {Timeout, GNDAnswer},
          instance_of \in [{Q1, Q2} -> ClassChoices] :
          LET wd == Http(200, WDObj(<<WDItem(JStr(Q1), "Hauffe"), WDItem(JStr(Q2), "Hauff")>>))
              r == IF label = "PER" THEN _lookup_person_external(text, wd, gnd)
                   ELSE _lookup_place_external(text, wd, gnd)
          IN  /\ call' = CallRecord(IF label = "PER" THEN "_lookup_person_external"
                                    ELSE "_lookup_place_external",
                                    [text |-> text, wd |-> wd, gnd |-> gnd,
                                     instance_of |-> instance_of], r)
              /\ trace' = r.calls
    /\ UNCHANGED <<entities, added_by_llm, internal_register, pc, idx, candidates, LOCAL_WORK_CACHE>>

\* Type strings: every synonym in some letter case, with and without
\* surrounding whitespace; other words; the empty string and whitespace only.
TypeStrings ==
    EntTypes
    \cup {T_PERSON, Lower(T_PER), <<"P", "e", "r">>, T_LOCATION, Lower(T_LOCATION),
          T_PLACE \o <<"\n">>, <<"\t">> \o Lower(T_LOC), Lower(T_WORK), T_TITLE,
          <<" ">> \o Lower(T_TITLE) \o <<" ">>, T_UNKNOWN, Lower(T_UNKNOWN),
          <<" ">> \o <<"o", "r", "g">> \o <<" ">>, <<"P", "E", "R", "S">>,
          <<" ", " ">>, <<"\t">>}

\* normalize_type(s), and normalize_type of what it returned.
CallNormalizeType ==
    /\ pc = "harness"
    /\ call = NoCall
    /\ \E ent_type \in TypeStrings :
          LET out == normalize_type(ent_type)
          IN  call' = [fn |-> "normalize_type", arg |-> [ent_type |-> ent_type],
                       raised |-> FALSE, out |-> out, again |-> normalize_type(out)]
    /\ trace' = <<>>
    /\ UNCHANGED <<entities, added_by_llm, internal_register, pc, idx, candidates, LOCAL_WORK_CACHE>>

\* gnd_type_filter(s), and the allow-list lookup of filter_wikidata_by_type
\* (authority.py lines 134-135).
CallTypeLookups ==
    /\ pc = "harness"
    /\ call = NoCall
    /\ \E ent_type \in TypeStrings :
          call' = [fn |-> "gnd_type_filter", arg |-> [ent_type |-> ent_type],
                   raised |-> FALSE, out |-> gnd_type_filter(ent_type),
                   allowed |-> WIKIDATA_ALLOWED_INSTANCE_OF(normalize_type(ent_type))]
    /\ trace' = <<>>
    /\ UNCHANGED <<entities, added_by_llm, internal_register, pc, idx, candidates, LOCAL_WORK_CACHE>>

InitFn ==
    /\ entities = <<>>
    /\ added_by_llm = <<>>
    /\ internal_register = NoRegister
    /\ pc = "harness"
    /\ call = NoCall
    /\ idx = 1
    /\ candidates = <<>>
    /\ trace = <<>>
    /\ LOCAL_WORK_CACHE = <<>>
    /\ call = NoCall

\* The caller takes the result; only the module-level cache outlives a call.
Return ==
    /\ pc = "harness"
    /\ call # NoCall
    /\ call' = NoCall
    /\ trace' = <<>>
    /\ UNCHANGED <<entities, added_by_llm, internal_register, pc, idx, candidates, LOCAL_WORK_CACHE>>

NextFn ==
    \/ CallLookupWork
    \/ CallSearchLocal
    \/ CallSearchGnd
    \/ CallSearchWikidataApi
    \/ CallQueryWikidataRaw
    \/ CallQueryGnd
    \/ CallFilterWikidataByType
    \/ CallAskLlm
    \/ CallSearchWikidataApiOnWire
    \/ CallSearchGndOnWire
    \/ CallLookupPersonOrPlace
    \/ CallNormalizeType
    \/ CallTypeLookups
    \/ CallSaiaInit
    \/ CallSaiaChat
    \/ CallOllamaChat
    \/ Return

SpecFn == InitFn /\ [][NextFn]_vars

(***************************************************************************)
(* What the properties below read of a state.  These are stated from the   *)
(* document and the recorded calls, apart from the guards of the code.     *)
(***************************************************************************)
HasRegister(e) == "register" \in DOMAIN e.links /\ e.links.register # RegNull

EveryMentionLinked == \A i \in 1..Len(all_entities) : HasRegister(all_entities[i])

RegisterEntries == IF internal_register = NoRegister THEN <<>> ELSE internal_register.v

NothingRecorded ==
    /\ RegisterEntries' = RegisterEntries
    /\ entities' = entities
    /\ added_by_llm' = added_by_llm

MentionLabel(e) ==
    IF e.target_label # Absent THEN e.target_label
    ELSE IF e.label # Absent THEN e.label ELSE ""

RoutedLabels == {"PER", "ORG", "LOC", "LIT_WORK", "LIT_OBJECT", "BIBL", "MANUSCRIPT"}

CandidateIds(cands) == {cands[i].id : i \in 1..Len(cands)}

\* The position in all_entities of the mention trace belongs to (0: none yet).
TracedMention ==
    IF pc = "adjudicate" THEN idx ELSE IF pc = "loop" THEN idx - 1 ELSE 0

\* The chat_json call at the end of trace.
LastCall(t) == t[Len(t)]

JustAdjudicated == pc = "loop" /\ trace # <<>> /\ LastCall(trace).svc = "LLM"

(***************************************************************************)
(* C1.  Idempotence.                                                       *)
(***************************************************************************)
\* C1: in every step of every run, a mention that carries a non-null
\* links.register keeps its links; and when every mention of the document
\* carries one, the step adds no entry to internal_register, changes no
\* mention and issues no Source Adapter or reasoning-service call.
C1_Idempotence ==
    [][ /\ \A i \in 1..Len(all_entities) :
              HasRegister(all_entities[i]) => all_entities'[i].links = all_entities[i].links
        /\ EveryMentionLinked => NothingRecorded /\ trace' = <<>> ]_vars

\* A run over a document whose mentions were all linked beforehand has come to
\* its end: the register exists and is empty.
C1_Witness_LinkedDocumentRun ==
    /\ pc = "idle"
    /\ Len(all_entities) >= 1
    /\ EveryMentionLinked
    /\ internal_register = Register(<<>>)

(***************************************************************************)
(* C2.  No exception leaves the per-mention loop.                          *)
(***************************************************************************)
\* C2: lookup_unlinked_entities returns normally for every document and every
\* behaviour of the sources and of the reasoning service: no exception leaves
\* the loop, whatever the label of the mention.
C2_NoExceptionEscapes == pc # "raised"

C4_TypeRouting ==
    TracedMention >= 1 =>
        LET l == MentionLabel(all_entities[TracedMention])
        IN  /\ l = "LOC" =>
                  \A i \in 1..Len(trace) :
                      trace[i].svc = "GND" =>
                          /\ trace[i].type \notin {"Person", "Work", "CorporateBody"}
                          /\ trace[i].native \notin {"DifferentiatedPerson", "Work", "CorporateBody"}
            /\ l \notin RoutedLabels => trace = <<>>

\* A LOC mention whose candidates have been gathered: the registry was asked
\* for places.
C4_Witness_PlaceQuery ==
    /\ pc = "adjudicate"
    /\ MentionLabel(all_entities[idx]) = "LOC"
    /\ \E i \in 1..Len(trace) :
          trace[i].svc = "GND" /\ trace[i].native = "PlaceOrGeographicName"

(***************************************************************************)
(* C5.  The WORK-like route: local first, short circuit.                   *)
(***************************************************************************)
\* C5: _lookup_work_external searches the Local-Catalogue first; with at least
\* one local candidate it returns exactly the local candidates and issues no
\* Authority-Registry query; otherwise it queries the registry exactly twice,
\* as Work and then as CorporateBody, and returns the Work results followed by
\* the CorporateBody results.
C5_LocalFirstShortCircuit ==
    call.fn = "_lookup_work_external" =>
        /\ ~call.raised
        /\ trace # <<>>
        /\ trace[1].svc = "Local"
        /\ trace[1].out = _search_local_work_cache(call.arg.text, LOCAL_WORK_CACHE)
        /\ IF trace[1].out # <<>>
           THEN Len(trace) = 1 /\ call.out = trace[1].out
           ELSE /\ Len(trace) = 3
                /\ \A i \in 2..3 : trace[i].svc = "GND" /\ trace[i].text = call.arg.text
                /\ trace[2].type = "Work" /\ trace[2].native = "Work"
                /\ trace[3].type = "CorporateBody" /\ trace[3].native = "CorporateBody"
                /\ call.out = trace[2].out \o trace[3].out

\* The catalogue held a match: the local candidates came back and the registry
\* was not asked.
C5_Witness_ShortCircuit ==
    /\ call.fn = "_lookup_work_external"
    /\ Len(trace) = 1
    /\ Len(call.out) >= 1
    /\ call.out[1].source = "lassberg"

(***************************************************************************)
(* C6.  The class filter fails open.                                       *)
(***************************************************************************)
\* The classes the class lookup's answer gives for the candidate id.
ClassesOf(resp, id) ==
    LET bs == {resp.body.bindings[i] : i \in 1..Len(resp.body.bindings)}
    IN  {RSplitLast(b.inst) : b \in {x \in bs : "inst" \in DOMAIN x /\ RSplitLast(x.item) = id}}

RECURSIVE WithoutClasses(_)
WithoutClasses(cs) ==
    IF cs = <<>> THEN <<>>
    ELSE <<[id |-> Head(cs).id, label |-> Head(cs).label]>> \o WithoutClasses(Tail(cs))

\* C6: for a type that has an allow-list, when the class lookup answers and no
\* candidate has a class of the allow-list, filter_wikidata_by_type returns the
\* list it was given; when some candidates have one, it returns exactly those,
\* in their original order, each with its classes attached as instance_of.
C6_FailOpenFilter ==
    (call.fn = "filter_wikidata_by_type" /\ ~call.raised) =>
        LET cands == call.arg.cands
            resp == call.arg.resp
            allowed == WIKIDATA_ALLOWED_INSTANCE_OF(normalize_type(call.arg.ent_type))
            Qualifies(c) == c.id.t = "str" /\ ClassesOf(resp, c.id.v) \cap allowed # {}
        IN  allowed # {} =>
                /\ cands # <<>> => call.out # <<>>
                /\ IF \A i \in 1..Len(cands) : ~Qualifies(cands[i])
                   THEN call.out = cands
                   ELSE /\ WithoutClasses(call.out) = SelectSeq(cands, Qualifies)
                        /\ \A i \in 1..Len(call.out) :
                              {call.out[i].instance_of[k] : k \in 1..Len(call.out[i].instance_of)}
                                  = ClassesOf(resp, call.out[i].id.v)

\* The class lookup answered and no candidate has a class of the allow-list:
\* the candidates came back as given.
C6_Witness_NoneQualifies ==
    /\ call.fn = "filter_wikidata_by_type"
    /\ ~call.raised
    /\ Len(trace) = 1
    /\ trace[1].failure = "none"
    /\ Len(call.arg.cands) >= 2
    /\ call.out = call.arg.cands

(***************************************************************************)
(* C7.  Graceful degradation.                                              *)
(***************************************************************************)
\* The Knowledge-Base query of the mention being processed has failed.
KBFailed == trace # <<>> /\ trace[1].svc = "Wikidata" /\ trace[1].failure # "none"

\* C7: when the Knowledge-Base query for a mention fails, the Authority-Registry
\* is still queried for the same text, the candidates of the aggregator are the
\* registry's, and when there are any they are what the adjudicator is given.
C7_GracefulDegradation ==
    [][ KBFailed =>
          /\ Len(trace) = 2
          /\ trace[2].svc = "GND"
          /\ trace[2].text = trace[1].text
          /\ trace[2].text = TextToLookup(all_entities[TracedMention])
          /\ candidates = trace[2].out
          /\ trace[2].out # <<>> =>
                /\ pc = "adjudicate"
                /\ LastCall(trace').svc = "LLM"
                /\ LastCall(trace').cands = trace[2].out ]_vars

\* The Knowledge-Base failed, the registry answered with a candidate, and the
\* adjudication of that candidate is next.
C7_Witness_RegistryOnly ==
    /\ pc = "adjudicate"
    /\ KBFailed
    /\ candidates # <<>>
    /\ \A i \in 1..Len(candidates) : candidates[i].source = "GND"

(***************************************************************************)
(* C8.  Source adapters never raise.                                       *)
(***************************************************************************)
AdapterFns == {"_search_wikidata_api", "_search_gnd", "query_wikidata_raw", "query_gnd"}

\* C8: a Knowledge-Base or Authority-Registry adapter, of external_lookup.py or
\* of authority.py, whose remote call times out, fails at the network level,
\* answers with an error status or with a body that is not JSON or lacks the
\* expected keys, does not raise and returns an empty list.
C8_AdaptersNeverRaise ==
    (call.fn \in AdapterFns /\ trace # <<>> /\ trace[1].failure # "none") =>
        ~call.raised /\ call.out = <<>>

(***************************************************************************)
(* C9.  A failing reasoning service is an abstention.                      *)
(***************************************************************************)
\* C9: when the chat_json call of an adjudication fails (the transport after
\* the client's retries, a completion that is not JSON, a completion that is not
\* a JSON object), nothing is recorded for the mention and the loop goes on to
\* the next mention.
C9_ReasoningFailureAbstains ==
    [][ (pc = "adjudicate" /\ LastCall(trace').failure # "none") =>
          /\ LastCall(trace').failure \in {"RuntimeError", "ValueError", "AttributeError"}
          /\ NothingRecorded
          /\ pc' = "loop"
          /\ idx' = idx + 1 ]_vars

\* The transport failed on every attempt; the mention is unlinked and the loop
\* stands at the mention after it.
C9_Witness_TransportFailure ==
    /\ JustAdjudicated
    /\ LastCall(trace).failure = "RuntimeError"
    /\ ~HasRegister(all_entities[idx - 1])
    /\ idx <= Len(all_entities)

(***************************************************************************)
(* C10.  Confidence coercion.                                              *)
(***************************************************************************)
\* C10: when the answer of the reasoning service picks the id of a candidate
\* and its confidence is missing, null or not convertible to a number,
\* _ask_llm_external_pick returns a decision for that candidate with
\* confidence 0.0.
C10_ConfidenceCoercion ==
    call.fn = "_ask_llm_external_pick" =>
        LET first == call.arg.attempts[1]
        IN  (/\ first.kind = "http"
             /\ first.status = 200
             /\ first.body.t = "chat"
             /\ first.body.content.t = "obj"
             /\ first.body.content.pick \in CandidateIds(call.arg.cands)
             /\ first.body.content.pick.t = "str"
             /\ first.body.content.confidence \in {JAbsent, JNull, JStr(<<"h", "i", "g", "h">>)})
            => /\ call.out.t = "decision"
               /\ call.out.external_id = first.body.content.pick.v
               /\ call.out.confidence = 0

(***************************************************************************)
(* C11.  Confidence lies in [0,1].                                         *)
(***************************************************************************)
\* Confidences are hundredths: [0,1] is 0..100.
InUnitInterval(h) == h >= 0 /\ h <= 100

\* The mentions that a run of lookup_unlinked_entities has linked.
LinkedByRun(e) == HasRegister(e) /\ e.links.register.kind = "external_new"

\* C11: every confidence stored in a register entry and every
\* links.decision.score written by lookup_unlinked_entities lies in [0,1],
\* whatever number the reasoning service returns.
C11_ConfidenceInUnitInterval ==
    /\ \A i \in 1..Len(RegisterEntries) : InUnitInterval(RegisterEntries[i].confidence)
    /\ \A i \in 1..Len(all_entities) :
          LinkedByRun(all_entities[i]) => InUnitInterval(all_entities[i].links.decision.score)

(***************************************************************************)
(* C12.  Internal ids are pairwise distinct.                               *)
(***************************************************************************)
\* C12: after any sequence of runs the xml_id values of the entries of
\* internal_register are pairwise distinct, for every outcome of the random
\* suffix generation.
C12_UniqueXmlIds ==
    \A i, j \in 1..Len(RegisterEntries) :
        i # j => RegisterEntries[i].xml_id # RegisterEntries[j].xml_id

(***************************************************************************)
(* C13.  The register is append-only and in resolution order.              *)
(***************************************************************************)
\* C13: in every step the entries already in internal_register stay an
\* unchanged prefix of it; within a run the mentions are processed in the order
\* of all_entities (entities, then added_by_llm); a step changes the links of a
\* mention exactly when it appends one entry, and that entry is the entry of
\* the mention being processed.
C13_AppendOnlyInOrder ==
    [][ LET n == Len(RegisterEntries)
            appended == Len(RegisterEntries') = n + 1
        IN  /\ SubSeq(RegisterEntries', 1, n) = RegisterEntries
            /\ Len(RegisterEntries') \in {n, n + 1}
            /\ Len(entities') = Len(entities)
            /\ (pc \in {"loop", "adjudicate"} /\ pc' \in {"loop", "adjudicate"}) => idx' >= idx
            /\ \A i \in 1..Len(all_entities) :
                  all_entities'[i].links # all_entities[i].links =>
                      /\ pc = "adjudicate"
                      /\ i = idx
                      /\ appended
            /\ appended =>
                  /\ pc = "adjudicate"
                  /\ all_entities'[idx].links # all_entities[idx].links
                  /\ RegisterEntries'[n + 1].text = all_entities[idx].text
                  /\ RegisterEntries'[n + 1].xml_id = all_entities'[idx].links.register.xml_id ]_vars

\* A run has linked a mention of entities and then a mention of added_by_llm:
\* their entries stand in that order.
C13_Witness_TwoEntriesInOrder ==
    /\ pc = "idle"
    /\ Len(entities) = 1
    /\ Len(added_by_llm) = 1
    /\ Len(RegisterEntries) = 2
    /\ RegisterEntries[1].text = entities[1].text
    /\ RegisterEntries[2].text = added_by_llm[1].text

(***************************************************************************)
(* C14.  The registry is never queried unfiltered.                         *)
(***************************************************************************)
\* C14: neither registry adapter (_search_gnd, query_gnd) sends a request
\* without a type filter; for an entity type that maps to no native registry
\* type it returns an empty list without sending any request.
C14_NeverUnfiltered ==
    /\ call.fn \in {"_search_gnd", "query_gnd"} =>
          \A i \in 1..Len(trace) : trace[i].native # Null
    /\ (call.fn = "_search_gnd" /\ GndTypeMap(call.arg.entity_type) = Null) =>
          ~call.raised /\ call.out = <<>> /\ trace = <<>>
    /\ (call.fn = "query_gnd" /\ gnd_type_filter(call.arg.ent_type) = Null) =>
          ~call.raised /\ call.out = <<>> /\ trace = <<>>

(***************************************************************************)
(* C15.  The local search returns the best titles at or above 75.          *)
(***************************************************************************)
\* The score the claim speaks of: the title's similarity, or the larger of it
\* and the alternate titles' similarity when there are alternate titles.
ClaimedScore(entry) ==
    IF entry.alt_titles = "" THEN entry.sim
    ELSE IF entry.alt_sim > entry.sim THEN entry.alt_sim ELSE entry.sim

Qualifying(es) == {j \in 1..Len(es) : ClaimedScore(es[j]) >= 75}

AsCandidate(entry) ==
    [label |-> entry.label, id |-> entry.id, source |-> entry.source,
     score |-> ClaimedScore(entry), ref |-> entry.ref]

\* C15: _search_local_work_cache returns entries of the cache, each with its
\* score and each at most as often as the cache holds it; every returned
\* score is at least 75; the result is ordered by non-increasing score and
\* has at most 5 elements; and for every score t from 75 up, the result holds
\* as many entries scoring t or more as the cache does, up to 5: so it is
\* exactly the qualifying entries when there are at most 5, and otherwise no
\* returned entry scores lower than an omitted one.
C15_LocalSearchTopFive ==
    call.fn = "_search_local_work_cache" =>
        LET es == AllEntries(LOCAL_WORK_CACHE)
            out == call.out
        IN  /\ Len(out) <= 5
            /\ \A i \in 1..Len(out) : out[i].score >= 75
            /\ \A i \in 1..Len(out) :
                  /\ \E j \in 1..Len(es) : AsCandidate(es[j]) = out[i]
                  /\ Cardinality({k \in 1..Len(out) : out[k] = out[i]})
                        <= Cardinality({j \in 1..Len(es) : AsCandidate(es[j]) = out[i]})
            /\ \A i \in 1..Len(out) : \A k \in 1..Len(out) :
                  i < k => out[i].score >= out[k].score
            /\ \A t \in 75..100 :
                  LET have == Cardinality({j \in Qualifying(es) : ClaimedScore(es[j]) >= t})
                  IN  Cardinality({i \in 1..Len(out) : out[i].score >= t})
                         = (IF have > 5 THEN 5 ELSE have)

\* A search over a catalogue with six qualifying titles and titles below the
\* threshold: five are returned, the first found of those scoring 75 is the
\* last returned, the second is left out.
C15_Witness_SixQualify ==
    /\ call.fn = "_search_local_work_cache"
    /\ Cardinality(Qualifying(AllEntries(LOCAL_WORK_CACHE))) = 6
    /\ Len(AllEntries(LOCAL_WORK_CACHE)) = 8
    /\ Len(call.out) = 5
    /\ call.out[1].score = 100
    /\ call.out[5].score = 75
    /\ call.out[5].id = JStr(<<"T", "2">>)

(***************************************************************************)
(* C16.  The catalogue index is initialized once.                          *)
(***************************************************************************)
\* C16: over a sequence of _search_local_work_cache calls, a call that
\* follows another one reads no catalogue file and leaves LOCAL_WORK_CACHE
\* as it is, whatever work_files it passes and whichever files exist.
C16_IndexInitializedOnce ==
    [][(call.fn = "_search_local_work_cache" /\ call'.fn = "_search_local_work_cache")
          => (LOCAL_WORK_CACHE' = LOCAL_WORK_CACHE /\ call'.files_read = <<>>)]_vars

(***************************************************************************)
(* C17.  A chat call makes at most retry + 1 attempts, with growing waits. *)
(***************************************************************************)
ChatFns == {"SaiaChatClient.chat", "OllamaChatClient.chat"}

IsChatCall == call.fn \in ChatFns

Posts(events) == {i \in 1..Len(events) : events[i].e = "post"}
Sleeps(events) == {i \in 1..Len(events) : events[i].e = "sleep"}

\* What C17 says of the attempts and of the sleeps apart from how the waits
\* compare: n POSTs with 1 <= n <= retry + 1; the call returns the completion
\* of the n-th attempt, the first that succeeds, or raises with n = retry + 1
\* and no attempt succeeding; the events are POST 1, sleep, POST 2, sleep,
\* ..., POST n, the sleep after POST k lasting retry_backoff_s * k.
AttemptsAndSleeps ==
    LET ev == call.events
        n == Cardinality(Posts(ev))
        a == call.arg.attempts
    IN  /\ n >= 1 /\ n <= call.arg.retry + 1
        /\ \A k \in 1..(n - 1) : ~AttemptSucceeds(a[k])
        /\ ~call.raised => AttemptSucceeds(a[n]) /\ call.out = a[n].body.content
        /\ call.raised => n = call.arg.retry + 1 /\ ~AttemptSucceeds(a[n])
        /\ Len(ev) = 2 * n - 1
        /\ \A k \in 1..n : ev[2 * k - 1] = Post(k, a[k])
        /\ \A k \in 1..(n - 1) : ev[2 * k] = Sleep(call.arg.retry_backoff_s * k)

ClientError(resp) == resp.kind = "http" /\ resp.status \in {400, 401, 404}

\* C18: in a chat call of either client, no attempt that met status 400, 401
\* or 404 is followed by another attempt; a call whose first attempt meets
\* such a status raises after that single POST.
C18_ClientErrorNotRetried ==
    IsChatCall =>
        LET n == Cardinality(Posts(call.events))
        IN  /\ \A k \in 1..(n - 1) : ~ClientError(call.arg.attempts[k])
            /\ ClientError(call.arg.attempts[1]) => call.raised /\ n = 1

(***************************************************************************)
(* C19.  The adapters recover from a server error by retrying.             *)
(***************************************************************************)
OnWire == call.fn \in {"_search_wikidata_api", "_search_gnd"} /\ "wire" \in DOMAIN call.arg

Answered(resp) == resp.kind = "http" /\ resp.status = 200

\* The transmissions, after a first one answered 500, 502, 503 or 504, that
\* are answered while every earlier one failed in a way the transport retries.
Recoveries(wire) ==
    {k \in 2..(Retries + 1) :
        /\ wire[1].kind = "http" /\ wire[1].status \in {500, 502, 503, 504}
        /\ Answered(wire[k])
        /\ \A j \in 1..(k - 1) : ~Answered(wire[j]) /\ Retryable(wire[j])}

\* C19: when the endpoint answers the first attempt of an adapter's query
\* with 500, 502, 503 or 504 and a later attempt within the retry bound
\* succeeds, the adapter returns the candidates of that attempt, not an
\* empty list.
C19_AdaptersRetryServerErrors ==
    OnWire =>
        \A k \in Recoveries(call.arg.wire) :
            /\ ~call.raised
            /\ call.out # <<>>
            /\ call.out =
                  (IF call.fn = "_search_gnd"
                   THEN _search_gnd(call.arg.text, call.arg.entity_type, PersonLimit,
                                    call.arg.wire[k]).out
                   ELSE _search_wikidata_api(call.arg.text, call.arg.entity_type, PersonLimit,
                                             call.arg.wire[k]).out)

(***************************************************************************)
(* C20.  The reasoning client needs a credential at construction.          *)
(***************************************************************************)
\* C20: constructing SaiaChatClient raises, with no request sent, exactly
\* when neither the api_key argument nor the configuration gives a
\* credential; when one is available the construction succeeds and the
\* Authorization header carries it: the api_key argument when it is given,
\* the configured key otherwise.
C20_CredentialAtConstruction ==
    call.fn = "SaiaChatClient.__init__" =>
        LET given == ~Falsy(call.arg.api_key)
            configured == ~Falsy(call.arg.saia_api_key)
        IN  /\ trace = <<>>
            /\ call.raised <=> ~(given \/ configured)
            /\ given =>
                  ~call.raised /\ call.headers.Authorization = <<"Bearer", call.arg.api_key>>
            /\ (~given /\ configured) =>
                  ~call.raised /\ call.headers.Authorization = <<"Bearer", call.arg.saia_api_key>>

(***************************************************************************)
(* C21.  One adjudication per mention, after its gathering.                *)
(***************************************************************************)
LlmCalls(t) == {i \in 1..Len(t) : t[i].svc = "LLM"}

\* C21: in every step of a run, the calls made for one mention hold at most
\* one chat_json call, and it comes after every Source Adapter call; the step
\* that makes it is taken for an unlinked mention with a routed label and a
\* non-empty candidate list, after the gathering of that mention (whose
\* requests are the calls before it), and moves the loop to the next mention;
\* the calls of the step after it belong to the next mention and hold no
\* chat_json call; and the loop never goes back to a mention within a run.
C21_OneAdjudicationPerMention ==
    [][ /\ Cardinality(LlmCalls(trace')) <= 1
        /\ LlmCalls(trace') # {} => LlmCalls(trace') = {Len(trace')}
        /\ LlmCalls(trace) # {} => LlmCalls(trace') = {}
        /\ (LlmCalls(trace) = {} /\ LlmCalls(trace') # {}) =>
              /\ pc = "adjudicate"
              /\ idx <= Len(all_entities)
              /\ ~HasRegister(all_entities[idx])
              /\ MentionLabel(all_entities[idx]) \in RoutedLabels
              /\ candidates # <<>>
              /\ Len(trace) >= 1
              /\ Len(trace') = Len(trace) + 1
              /\ \A i \in 1..Len(trace) :
                    /\ trace'[i].svc = trace[i].svc
                    /\ trace'[i].text = trace[i].text
                    /\ trace'[i].native = trace[i].native
              /\ LastCall(trace').cands = candidates
              /\ pc' = "loop"
              /\ idx' = idx + 1
        /\ pc = "adjudicate" => LlmCalls(trace') # {}
        /\ pc \in {"loop", "adjudicate"} => idx' >= idx ]_vars

\* Both mentions of a document were adjudicated in one run, each after its
\* own gathering: the first is linked, the calls of the second end with its
\* chat_json call.
C21_Witness_TwoAdjudications ==
    /\ JustAdjudicated
    /\ Len(all_entities) = 2
    /\ idx = 3
    /\ LinkedByRun(all_entities[1])
    /\ Len(trace) >= 2
    /\ Cardinality(LlmCalls(trace)) = 1

(***************************************************************************)
(* C22.  The Type Reconciler's mapping.                                    *)
(***************************************************************************)
\* The type string without its surrounding whitespace, in lower case, and the
\* coarse type the claim gives it ("other": none of the synonyms).
Core(s) == Lower(Strip(s))

CoarseOf(s) ==
    IF Core(s) \in {Lower(T_PER), Lower(T_PERSON)} THEN "PER"
    ELSE IF Core(s) \in {Lower(T_LOC), Lower(T_LOCATION), Lower(T_PLACE)} THEN "LOC"
    ELSE IF Core(s) \in {Lower(T_WORK), Lower(T_TITLE)} THEN "WORK"
    ELSE "other"

\* What C22 says of the synonyms and of the two lookups.
SynonymsAndLookups ==
    /\ call.fn = "normalize_type" =>
          /\ ~call.raised
          /\ CoarseOf(call.arg.ent_type) = "PER" => call.out = <<"P", "E", "R">>
          /\ CoarseOf(call.arg.ent_type) = "LOC" => call.out = <<"L", "O", "C">>
          /\ CoarseOf(call.arg.ent_type) = "WORK" => call.out = <<"W", "O", "R", "K">>
    /\ call.fn = "gnd_type_filter" =>
          /\ ~call.raised
          /\ call.out =
                (CASE CoarseOf(call.arg.ent_type) = "PER" -> "type:Person"
                   [] CoarseOf(call.arg.ent_type) = "LOC" -> "type:PlaceOrGeographicName"
                   [] CoarseOf(call.arg.ent_type) = "WORK" -> "type:Work"
                   [] OTHER -> Null)
          /\ (call.allowed = {}) <=> (CoarseOf(call.arg.ent_type) = "other")
          /\ CoarseOf(call.arg.ent_type) = "PER" => call.allowed = {"Q5"}

\* C22 (as amended): normalize_type never raises; PER/PERSON give PER,
\* LOC/LOCATION/PLACE give LOC, WORK/TITLE give WORK, in any letter case and
\* with any surrounding whitespace; the empty string gives UNKNOWN; every
\* other string is returned without its surrounding whitespace and
\* uppercased; gnd_type_filter and the allow-list lookup give the value of
\* the coarse type, null for every string that is not one of the synonyms.
C22_TypeMapping ==
    /\ SynonymsAndLookups
    /\ (call.fn = "normalize_type" /\ CoarseOf(call.arg.ent_type) = "other") =>
          call.out = (IF call.arg.ent_type = <<>> THEN <<"U", "N", "K", "N", "O", "W", "N">>
                      ELSE Upper(Strip(call.arg.ent_type)))

\* C22 (as stated): the same, with every string that is not one of the
\* synonyms returned uppercased (with or without its surrounding whitespace).
C22_Original_OthersUppercased ==
    /\ SynonymsAndLookups
    /\ (call.fn = "normalize_type" /\ CoarseOf(call.arg.ent_type) = "other") =>
          call.out \in {Upper(call.arg.ent_type), Upper(Strip(call.arg.ent_type))}

\* " person" was normalized to PER.
C22_Witness_PaddedLowerCasePerson ==
    /\ call.fn = "normalize_type"
    /\ call.arg.ent_type = <<" ", "p", "e", "r", "s", "o", "n">>
    /\ call.out = <<"P", "E", "R">>

(***************************************************************************)
(* C29.  normalize_type is idempotent.                                     *)
(***************************************************************************)
\* C29: for every string s, normalize_type(normalize_type(s)) equals
\* normalize_type(s).
C29_NormalizeTypeIdempotent ==
    call.fn = "normalize_type" => call.again = call.out

(***************************************************************************)
(* C23.  The WORK-like route.                                              *)
(***************************************************************************)
\* C23: a run that comes to an unlinked mention labelled LIT_WORK,
\* LIT_OBJECT, BIBL or MANUSCRIPT gathers candidates for it (Local-Catalogue
\* first, then the registry) and goes on to adjudicate or to the next
\* mention: the run is not ended by an exception at that mention.
C23_WorkRouteGathers ==
    (/\ idx <= Len(all_entities)
     /\ all_entities[idx].links # LinksNull
     /\ ~HasRegister(all_entities[idx])
     /\ MentionLabel(all_entities[idx]) \in {"LIT_WORK", "LIT_OBJECT", "BIBL", "MANUSCRIPT"})
    => pc # "raised"

(***************************************************************************)
(* C24.  The aggregator's Knowledge-Base candidates are filtered by class. *)
(***************************************************************************)
\* The allow-list of the coarse type of the mention the aggregator serves,
\* and the items of the Knowledge-Base's answer that have a class in it.
AllowListOfCall ==
    IF call.fn = "_lookup_person_external" THEN WIKIDATA_ALLOWED_INSTANCE_OF(T_PER)
    ELSE WIKIDATA_ALLOWED_INSTANCE_OF(T_LOC)

HasAllowedClass(id) ==
    /\ id.t = "str"
    /\ id.v \in DOMAIN call.arg.instance_of
    /\ \E i \in 1..Len(call.arg.instance_of[id.v]) :
          call.arg.instance_of[id.v][i] \in AllowListOfCall

\* C24: when at least one candidate the Knowledge-Base returned for a PER or
\* LOC mention has a class in the allow-list of that type, every
\* Knowledge-Base candidate in the list the aggregator gathers has a class in
\* the allow-list.
C24_KBCandidatesFilteredByClass ==
    (/\ call.fn \in {"_lookup_person_external", "_lookup_place_external"}
     /\ \E i \in 1..Len(call.arg.wd.body.search) :
           HasAllowedClass(call.arg.wd.body.search[i].id))
    => \A i \in 1..Len(call.out) :
          call.out[i].source = "Wikidata" => HasAllowedClass(call.out[i].id)

(***************************************************************************)
(* C25.  The idempotence guard.                                            *)
(***************************************************************************)
\* C25: the step the loop takes at a mention skips it, recording nothing and
\* calling nothing, exactly when its links.register is non-null; a mention
\* whose links are null, absent or hold a null register goes on to the label
\* check: with an out-of-scope label it is skipped, with the label PER, ORG
\* or LOC candidates are gathered for it, and in no case does the guard end
\* the run.
C25_GuardSkipsExactlyLinked ==
    [][ (pc = "loop" /\ idx <= Len(all_entities)) =>
          LET e == all_entities[idx]
          IN  /\ HasRegister(e) =>
                    pc' = "loop" /\ idx' = idx + 1 /\ NothingRecorded /\ trace' = <<>>
              /\ (~HasRegister(e) /\ MentionLabel(e) \in {"PER", "ORG", "LOC"}) =>
                    /\ pc' \in {"loop", "adjudicate"}
                    /\ trace' # <<>>
              /\ (~HasRegister(e) /\ MentionLabel(e) \in {"TIME", "MISC", "OTHER"}) =>
                    pc' = "loop" /\ idx' = idx + 1 /\ trace' = <<>> ]_vars

(***************************************************************************)
(* C26.  No candidates or an abstention: nothing is recorded.              *)
(***************************************************************************)
\* The pick of an answer is "none" in some letter case, empty, or missing.
PickIsNone(pick) ==
    \/ pick = JAbsent
    \/ pick.t = "str" /\ (pick.v = <<>> \/ Lower(pick.v) = <<"n", "o", "n", "e">>)

\* C26: a step of the loop that ends the processing of a mention without
\* candidates (the loop moves on with an empty candidate list), and the step
\* of an adjudication whose answer picks "none" in any letter case, the empty
\* string or nothing, leave every mention's links and internal_register as
\* they were, and the loop goes to the next mention.
C26_NothingRecordedWithoutPick ==
    [][ /\ (pc = "loop" /\ idx <= Len(all_entities) /\ pc' = "loop" /\ candidates' = <<>>) =>
              NothingRecorded /\ idx' = idx + 1
        /\ (pc = "adjudicate" /\ PickIsNone(LastCall(trace').out)) =>
              NothingRecorded /\ pc' = "loop" /\ idx' = idx + 1 ]_vars

\* After a register entry was made for the first mention, the reasoning
\* service answered "None" for the second: the second is unlinked and the
\* register still has one entry.
C26_Witness_AbstainedOnNone ==
    /\ JustAdjudicated
    /\ idx = 3
    /\ LastCall(trace).failure = "none"
    /\ LastCall(trace).out = JStr(<<"N", "o", "n", "e">>)
    /\ ~HasRegister(all_entities[2])
    /\ Len(RegisterEntries) = 1

(***************************************************************************)
(* C27.  Links and register entries agree.                                 *)
(***************************************************************************)
EntriesOf(e) ==
    {j \in 1..Len(RegisterEntries) : RegisterEntries[j].xml_id = e.links.register.xml_id}

\* C27: every mention linked by a run refers, by links.register.xml_id, to
\* exactly one register entry; that entry's external_id is links.register.ref,
\* its external_source is links.decision.external_source, its confidence is
\* links.decision.score, and the method is llm_external_adjudication; and
\* when the mention has just been linked, the external id is the pick of the
\* reasoning service's answer and the source is that of a supplied candidate
\* whose id is the pick.
C27_LinkRegisterConsistency ==
    /\ \A i \in 1..Len(all_entities) :
          LinkedByRun(all_entities[i]) =>
             LET e == all_entities[i]
             IN  /\ Cardinality(EntriesOf(e)) = 1
                 /\ e.links.decision.method = "llm_external_adjudication"
                 /\ \A j \in EntriesOf(e) :
                       /\ RegisterEntries[j].external_id = e.links.register.ref
                       /\ RegisterEntries[j].external_source = e.links.decision.external_source
                       /\ RegisterEntries[j].confidence = e.links.decision.score
    /\ (JustAdjudicated /\ LinkedByRun(all_entities[idx - 1])) =>
          LET e == all_entities[idx - 1]
          IN  /\ LastCall(trace).out = JStr(e.links.register.ref)
              /\ \E k \in 1..Len(candidates) :
                    /\ candidates[k].id = LastCall(trace).out
                    /\ candidates[k].source = e.links.decision.external_source

(***************************************************************************)
(* C28.  The frame of a run.                                               *)
(***************************************************************************)
SameButLinks(a, b) ==
    /\ a.text = b.text
    /\ a.normalized_text = b.normalized_text
    /\ a.target_label = b.target_label
    /\ a.label = b.label
    /\ a.evidence = b.evidence

\* C28: no step of a run changes the number or the order of the mentions of
\* entities and of added_by_llm, or a mention's text, normalized_text, label
\* or evidence; the links of a mention change only in the step that resolves
\* it, which is the adjudication of that mention, unlinked until then, and
\* which appends its register entry; the links of every other mention, linked
\* before or skipped, stay as they are.
C28_FrameOfRun ==
    [][ /\ Len(entities') = Len(entities)
        /\ Len(added_by_llm') = Len(added_by_llm)
        /\ \A i \in 1..Len(entities) : SameButLinks(entities'[i], entities[i])
        /\ \A i \in 1..Len(added_by_llm) : SameButLinks(added_by_llm'[i], added_by_llm[i])
        /\ \A i \in 1..Len(all_entities) :
              all_entities'[i].links # all_entities[i].links =>
                 /\ pc = "adjudicate"
                 /\ i = idx
                 /\ ~HasRegister(all_entities[i])
                 /\ LinkedByRun(all_entities'[i])
                 /\ Len(RegisterEntries') = Len(RegisterEntries) + 1 ]_vars

\* A run is over that linked the second mention of a document and left the
\* first, linked beforehand, as it was.
C28_Witness_OneResolvedOneKept ==
    /\ pc = "idle"
    /\ Len(entities) = 1
    /\ Len(added_by_llm) = 1
    /\ entities[1].links = PreLink
    /\ LinkedByRun(added_by_llm[1])
    /\ added_by_llm[1].evidence = <<"ner", "Elsterstadt">>
    /\ Len(RegisterEntries) = 1

====
